---- MODULE Spec2Model ----
(***************************************************************************)
(* tap-mongodb: the log-based reader                                       *)
(* (MongoDBCollectionStream._get_records_log_based, streams.py) as a state *)
(* machine.  One run of the generator is one behaviour: the option         *)
(* building, the open protocol with its two recovery paths (code 136 and   *)
(* code 286), the poll loop over try_next, the allowlist filter, the       *)
(* record built from a change event and the idle "dummy" record.           *)
(*                                                                         *)
(* The engine (pymongo + MongoDB/DocumentDB) is the environment: every     *)
(* call the reader makes to it (collection.watch, admin_db.command,        *)
(* change_stream.try_next) is an action whose outcome is drawn from a      *)
(* small set.                                                              *)
(*                                                                         *)
(* Python's None is the empty set and a present value v is {v}, so that a  *)
(* nullable field always holds a set.                                      *)
(***************************************************************************)
EXTENDS Integers, Sequences, FiniteSets, TLC

None == {}
Some(v) == {v}
The(opt) == CHOOSE v \in opt : TRUE

(* ------------------------------ bounds -------------------------------- *)
\* change events the engine delivers to one run
MaxEvents == 2
\* try_next failures with code 286 in one run
MaxReopens == 1
\* calls of the IncrementalId codec in a row, each on the result of the one before
MaxCalls == 4
\* documents in the collection an incremental run reads
MaxDocuments == 3
\* records passed to the state advancement one after the other
MaxAdvances == 3
\* client.server_info() calls of one connector
MaxProbes == 2

(* --------------------------- program constants ------------------------ *)
DEFAULT_START_DATE == "1970-01-01"
CODE_CHANGE_STREAMS_DISABLED == 136
CODE_RESUME_TOKEN_INVALID == 286
\* any other server error code (Unauthorized)
CODE_OTHER == 13

RESUME_AFTER == "RESUME_AFTER"
START_AFTER == "START_AFTER"
START_AT_OPERATION_TIME == "START_AT_OPERATION_TIME"

\* singer_sdk.streams.core
REPLICATION_INCREMENTAL == "INCREMENTAL"
REPLICATION_LOG_BASED == "LOG_BASED"

(* ------------------------------ domains ------------------------------- *)
Engines == {"mongodb", "documentdb"}

\* connector.version: (major, minor)
Versions == {<<3, 4>>, <<3, 6>>, <<4, 2>>}

Preferences == {"resume_after", "start_after", "start_at_operation_time", "fake_value"}

\* config operation_types: the default list and a custom one
DefaultOperationTypes == {"create", "delete", "insert", "replace", "update"}
Allowlists == {DefaultOperationTypes, {"insert", "rename"}}

\* resume token hex strings, in oplog order
TokenData == <<"8264A0", "8264A1", "8264A2", "8264A3", "8264A4", "8264A5", "8264A6", "8264A7">>

\* config start_date of a log-based run, when it is set: the default and a later date
LogBasedStartDates == {DEFAULT_START_DATE, "2021-09-22"}

\* config of a log-based run, start_date left out or set
LogBasedConfigs ==
  [allow_modify_change_streams : BOOLEAN,
   add_record_metadata : BOOLEAN,
   operation_types : Allowlists,
   change_stream_resume_strategy : Preferences]
  \cup [allow_modify_change_streams : BOOLEAN,
        add_record_metadata : BOOLEAN,
        operation_types : Allowlists,
        change_stream_resume_strategy : Preferences,
        start_date : LogBasedStartDates]

\* the state entry a log-based run starts with: none, or the resume token a
\* previous run left
PersistedStates == {[replication_key_value |-> None], [replication_key_value |-> Some(TokenData[1])]}

\* Stream.get_starting_replication_key_value (line 407): the bookmark of the
\* state entry, and config start_date when the state entry holds none
get_starting_replication_key_value(state, cfg) ==
  IF state.replication_key_value # None THEN state.replication_key_value
  ELSE IF "start_date" \in DOMAIN cfg THEN Some(cfg.start_date)
  ELSE None

\* collection.database.name and collection.name
DatabaseName == "test_db"
CollectionName == "orders"

Namespace == [db |-> DatabaseName, coll |-> CollectionName]
RenamedTo == [db |-> DatabaseName, coll |-> "orders_old"]

\* the shapes of change events: the keys an event of each operation type carries
EventShapes ==
  { [operationType |-> "insert", ns |-> Namespace,
     documentKey |-> [_id |-> [oid |-> "614a80b81ad8c60001b7d5f3"]],
     fullDocument |-> Some([_id |-> [oid |-> "614a80b81ad8c60001b7d5f3"]])],
    [operationType |-> "update", ns |-> Namespace,
     documentKey |-> [_id |-> [oid |-> "614a80b81ad8c60001b7d5f3"]],
     fullDocument |-> None,
     updateDescription |-> [removedFields |-> <<"a">>]],
    [operationType |-> "delete", ns |-> Namespace,
     documentKey |-> [_id |-> [oid |-> "614a80b81ad8c60001b7d5f3"]]],
    [operationType |-> "rename", ns |-> Namespace, to |-> RenamedTo],
    [operationType |-> "invalidate"] }

\* what collection.watch, admin_db.command and try_next can raise
OperationFailures ==
  { [kind |-> "OperationFailure", code |-> CODE_CHANGE_STREAMS_DISABLED, modifyMsg |-> TRUE],
    [kind |-> "OperationFailure", code |-> CODE_CHANGE_STREAMS_DISABLED, modifyMsg |-> FALSE],
    [kind |-> "OperationFailure", code |-> CODE_RESUME_TOKEN_INVALID, modifyMsg |-> FALSE],
    [kind |-> "OperationFailure", code |-> CODE_OTHER, modifyMsg |-> FALSE] }
Failures == OperationFailures \cup {[kind |-> "Exception", code |-> 0, modifyMsg |-> FALSE]}
\* code 136 is the answer to opening a stream on a collection that has none enabled
LaterFailures == {f \in Failures : f.code # CODE_CHANGE_STREAMS_DISABLED}

CannotEnableChangeStream == [kind |-> "RuntimeError", code |-> 0, modifyMsg |-> FALSE]

\* what admin_db.command can return
AdminResults == {None, Some([ok |-> 0]), Some([ok |-> 1])}

(* ------------------------------- state -------------------------------- *)
VARIABLES
  engine,                  \* which engine answers
  config,                  \* self.config
  mongo_version,           \* self._connector.version
  bookmark,                \* the bookmark argument
  pc,                      \* where the generator is
  resume_strategy,         \* local resume_strategy
  change_stream_options,   \* local change_stream_options
  has_seen_a_real_record,  \* local has_seen_a_real_record
  keep_open,               \* local keep_open
  change_stream,           \* local change_stream: None, or the open stream
  released_streams,        \* ids of the streams the generator no longer refers to
  watch_calls,             \* every collection.watch call, in order: its options, what it raised
  admin_commands,          \* every admin_db.command call, in order
  yielded,                 \* every record the generator has yielded, in order
  emitted,                 \* the record message made of each yielded record, in order
  delivered,               \* every event try_next has returned, in order
  raised,                  \* the error that left the generator, if any
  oplog,                   \* the engine's position in the oplog
  reopens,                 \* try_next failures with code 286 so far
  idle_polls_odd,          \* whether the last try_next calls that changed nothing are odd in number
  replication_method,      \* self.replication_method
  state_partitioning_keys, \* self.state_partitioning_keys
  stream_state,            \* the stream's state entry (get_context_state)
  state_history,           \* the bookmark the state entry held after each record of this run
  collection,              \* the _id values of the documents of the collection
  start_date,              \* local start_date of the incremental reader
  cursor,                  \* what the find cursor has still to return
  previous_run,            \* None, or the uninterrupted run this run restarts from
  call,                    \* a call of the IncrementalId codec: its name and arguments
  returned,                \* what the call returned or raised
  connector_version,       \* self._connector._version
  mongo_client,            \* the client the connector has cached, if any
  server_info_calls        \* every client.server_info() call of the connector, in order: "ok" or "raised"

vars == <<engine, config, mongo_version, bookmark, pc, resume_strategy,
          change_stream_options, has_seen_a_real_record, keep_open, change_stream,
          released_streams,
          watch_calls, admin_commands, yielded, emitted, delivered, raised, oplog, reopens,
          idle_polls_odd,
          replication_method, state_partitioning_keys, stream_state, state_history,
          collection, start_date, cursor, previous_run, call, returned,
          connector_version, mongo_client, server_info_calls>>

\* the fields of the connector
connectorVars == <<connector_version, mongo_client, server_info_calls>>
envConfig == <<engine, config, mongo_version, bookmark, connectorVars>>

\* what the log-based reader itself reads and writes, besides pc, yielded and raised
logBasedVars == <<resume_strategy, change_stream_options, has_seen_a_real_record, keep_open,
                  change_stream, released_streams, watch_calls, admin_commands, delivered,
                  oplog, reopens, idle_polls_odd>>
\* the stream's state entry and what state advancement reads
stateVars == <<replication_method, state_partitioning_keys, stream_state, state_history>>
\* what the incremental reader reads and writes
incrementalVars == <<collection, start_date, cursor, previous_run>>
codecVars == <<call, returned>>
\* what a log-based run leaves alone
notLogBased == <<stateVars, incrementalVars, codecVars>>

(* ------------------------------ connector ------------------------------ *)
\* connector.py lines 30-37: a connector that has just been made
NewConnector ==
  /\ connector_version = None
  /\ mongo_client = None
  /\ server_info_calls = <<>>

\* connector.py lines 42-53 done once: a connector that has made its client,
\* asked the server once and keeps the version it was told
Connected(version) ==
  /\ connector_version = Some(version)
  /\ mongo_client = Some("MongoClient")
  /\ server_info_calls = <<"ok">>

\* a plain property in place of the cached one: the client is made anew on every use
IsCachedNever(client) == FALSE

\* connector.py line 39, cached_property: what mongo_client returned is kept
\* in the instance and returned from then on
IsCached(client) == client # None

(* ------------------------ resume-strategy selector --------------------- *)
\* (major, minor) pairs compare as tuples
VersionAtLeast(v, w) == v[1] > w[1] \/ (v[1] = w[1] /\ v[2] >= w[2])

\* no server-version floor: a server older than 3.6 gets RESUME_AFTER
get_resume_strategy_any_version(version, preference) ==
  IF preference \notin {"resume_after", "start_after", "start_at_operation_time"}
  THEN "InvalidConfig"
  ELSE IF preference = "start_after" /\ VersionAtLeast(version, <<4, 2>>)
  THEN START_AFTER
  ELSE IF preference = "start_at_operation_time" /\ VersionAtLeast(version, <<4, 0>>)
  THEN START_AT_OPERATION_TIME
  ELSE RESUME_AFTER

\* one threshold for both newer strategies: start_at_operation_time needs 4.2 too
get_resume_strategy_one_threshold(version, preference) ==
  IF preference \notin {"resume_after", "start_after", "start_at_operation_time"}
  THEN "InvalidConfig"
  ELSE IF ~VersionAtLeast(version, <<3, 6>>)
  THEN "UnsupportedEngine"
  ELSE IF preference = "start_after" /\ VersionAtLeast(version, <<4, 2>>)
  THEN START_AFTER
  ELSE IF preference = "start_at_operation_time" /\ VersionAtLeast(version, <<4, 2>>)
  THEN START_AT_OPERATION_TIME
  ELSE RESUME_AFTER

\* major and minor compared one by one instead of as a pair: 5.0 is not
\* taken to be at least 4.2
get_resume_strategy_componentwise(version, preference) ==
  IF preference \notin {"resume_after", "start_after", "start_at_operation_time"}
  THEN "InvalidConfig"
  ELSE IF ~VersionAtLeast(version, <<3, 6>>)
  THEN "UnsupportedEngine"
  ELSE IF preference = "start_after" /\ version[1] >= 4 /\ version[2] >= 2
  THEN START_AFTER
  ELSE IF preference = "start_at_operation_time" /\ version[1] >= 4 /\ version[2] >= 0
  THEN START_AT_OPERATION_TIME
  ELSE RESUME_AFTER

\* an error result is one of these two strings
get_resume_strategy(version, preference) ==
  IF preference \notin {"resume_after", "start_after", "start_at_operation_time"}
  THEN "InvalidConfig"
  ELSE IF ~VersionAtLeast(version, <<3, 6>>)
  THEN "UnsupportedEngine"
  ELSE IF preference = "start_after" /\ VersionAtLeast(version, <<4, 2>>)
  THEN START_AFTER
  ELSE IF preference = "start_at_operation_time" /\ VersionAtLeast(version, <<4, 0>>)
  THEN START_AT_OPERATION_TIME
  ELSE RESUME_AFTER

IsStrategy(s) == s \in {RESUME_AFTER, START_AFTER, START_AT_OPERATION_TIME}

(* --------------------------- option building --------------------------- *)
BaseOptions == [full_document |-> "updateLookup"]

\* lines 238-245: the resume option added for a bookmark
InitialOptions(bm, strategy) ==
  IF bm # None /\ bm # Some(DEFAULT_START_DATE)
  THEN IF strategy = START_AFTER
       THEN ("start_after" :> [_data |-> The(bm)]) @@ BaseOptions
       ELSE IF strategy = RESUME_AFTER
       THEN ("resume_after" :> [_data |-> The(bm)]) @@ BaseOptions
       ELSE BaseOptions
  ELSE BaseOptions

\* dict.pop(key, None)
Pop(options, key) == [k \in DOMAIN options \ {key} |-> options[k]]

\* line 278 (302) left out: start_after stays in the options
DropResumeAfterOnly(options) == Pop(options, "resume_after")

\* lines 277-278 and 301-302
DropResumeOptions(options) == Pop(Pop(options, "resume_after"), "start_after")

(* ------------------------------ the engine ----------------------------- *)
\* the resume token of a stream that has just been opened: MongoDB has one
\* at once, DocumentDB has none until an event has been published
ResumeTokenOnOpen(eng, position) ==
  IF eng = "mongodb" THEN Some([_data |-> TokenData[position]]) ELSE None

OpenedStream(eng, position, id) ==
  [id |-> id, alive |-> TRUE, resume_token |-> ResumeTokenOnOpen(eng, position)]

\* the event try_next returns at oplog position n
EventAt(shape, n) ==
  ("_id" :> [_data |-> TokenData[n]]) @@ ("clusterTime" :> [time |-> n, inc |-> 1]) @@ shape

\* bson Timestamp.as_datetime(): the seconds, the increment is dropped
as_datetime(ts) == [utc_seconds |-> ts.time]
\* datetime.isoformat()
isoformat(dt) == <<"iso8601", dt.utc_seconds>>
\* datetime.now(timezone.utc): not before any cluster time seen
utc_now(position) == [utc_seconds |-> position + 1]
\* str(ObjectId)
ObjectIdStr(o) == o.oid

(* ---------------------------- record building -------------------------- *)
\* line 257 left out: the config option is not read
ShouldEnableWithoutOptIn(failure, cfg) ==
  /\ failure.kind = "OperationFailure"
  /\ failure.code = CODE_CHANGE_STREAMS_DISABLED
  /\ failure.modifyMsg

\* lines 255-257
ShouldEnableChangeStreams(failure, cfg) ==
  /\ failure.kind = "OperationFailure"
  /\ failure.code = CODE_CHANGE_STREAMS_DISABLED
  /\ failure.modifyMsg
  /\ cfg.allow_modify_change_streams

\* lines 272 and 296 without the test of the code: every OperationFailure is
\* taken for an invalid token
IsAnyOperationFailure(failure) == failure.kind = "OperationFailure"

\* lines 272 and 296
IsTokenInvalid(failure) ==
  failure.kind = "OperationFailure" /\ failure.code = CODE_RESUME_TOKEN_INVALID

\* line 266 as a test of the result alone: result["ok"] is not read
ResultPresent(result) == result # None

\* line 266: result and result["ok"]
ResultOk(result) == result # None /\ The(result).ok # 0

\* line 352 brought back in place of the test of line 324: the flag is not read
ShouldYieldDummyIgnoringSeen(record, seen, stream) ==
  record = None /\ stream.resume_token # None

\* line 324
ShouldYieldDummy(record, seen, stream) ==
  record = None /\ ~seen /\ stream.resume_token # None

\* the test of line 354 never true: an empty tick after real records does not end the loop
CaughtUpNever(record, seen) == FALSE

\* line 354 without the flag: every tick without an event ends the loop
CaughtUpIgnoringSeen(record, seen) == record = None

\* line 354
CaughtUp(record, seen) == record = None /\ seen

\* line 359 against the default list instead of the configured one
InDefaultAllowlist(operation_type, allowlist) == operation_type \in DefaultOperationTypes

\* line 359
InAllowlist(operation_type, allowlist) == operation_type \in allowlist

\* lines 345-348
DummyMetadata(meta, position) ==
  IF meta
  THEN [_sdc_extracted_at |-> utc_now(position), _sdc_batched_at |-> utc_now(position)]
  ELSE <<>>

\* the namespace filled in as the incremental reader does
DummyRecordWithNamespace(stream, meta, position) ==
  DummyMetadata(meta, position) @@
  [replication_key |-> The(stream.resume_token)._data,
   object_id |-> None,
   document |-> None,
   update_description |-> None,
   operation_type |-> None,
   cluster_time |-> None,
   namespace |-> Some([database |-> DatabaseName, collection |-> CollectionName]),
   to |-> None]

\* lines 335-348
DummyRecord(stream, meta, position) ==
  DummyMetadata(meta, position) @@
  [replication_key |-> The(stream.resume_token)._data,
   object_id |-> None,
   document |-> None,
   update_description |-> None,
   operation_type |-> None,
   cluster_time |-> None,
   namespace |-> None,
   to |-> None]

\* lines 366-372 as record.get("fullDocument") or record.get("documentKey"):
\* a fullDocument of null falls back to documentKey
DocumentOfTruthy(record) ==
  IF "fullDocument" \in DOMAIN record /\ record.fullDocument # None THEN record.fullDocument
  ELSE IF "documentKey" \in DOMAIN record THEN Some(record.documentKey)
  ELSE None

\* lines 366-372
DocumentOf(record) ==
  IF "fullDocument" \in DOMAIN record THEN record.fullDocument
  ELSE IF "documentKey" \in DOMAIN record THEN Some(record.documentKey)
  ELSE None

\* line 374 and line 386
ObjectIdOf(document) ==
  IF document # None /\ DOMAIN The(document) # {} /\ "_id" \in DOMAIN The(document)
  THEN Some(ObjectIdStr(The(document)._id))
  ELSE None

\* lines 397-401
RecordMetadata(record, meta, position) ==
  IF meta
  THEN (IF record.operationType = "delete"
        THEN [_sdc_deleted_at |-> as_datetime(record.clusterTime)]
        ELSE <<>>) @@
       [_sdc_extracted_at |-> as_datetime(record.clusterTime),
        _sdc_batched_at |-> utc_now(position)]
  ELSE <<>>

\* line 385 reading the token of the event before this one
ReplicationKeyOfPrevious(record) == TokenData[record.clusterTime.time - 1]

\* line 385
ReplicationKeyOf(record) == record._id._data

\* lines 362-401
ParsedRecord(record, meta, position) ==
  RecordMetadata(record, meta, position) @@
  [replication_key |-> ReplicationKeyOf(record),
   object_id |-> ObjectIdOf(DocumentOf(record)),
   document |-> DocumentOf(record),
   update_description |->
     IF "updateDescription" \in DOMAIN record THEN Some(record.updateDescription) ELSE None,
   operation_type |-> Some(record.operationType),
   cluster_time |-> Some(isoformat(as_datetime(record.clusterTime))),
   namespace |-> Some([database |-> record.ns.db, collection |-> record.ns.coll]),
   to |-> IF "to" \in DOMAIN record
          THEN Some([database |-> record.to.db, collection |-> record.to.coll])
          ELSE None]

(* ------------------------ strings, dates, ObjectIds -------------------- *)
\* a Python str is the sequence of its characters
Digits == <<"0", "1", "2", "3", "4", "5", "6", "7", "8", "9">>
HexDigits == Digits \o <<"a", "b", "c", "d", "e", "f">>
\* the characters of the keys, in code-point order
Alphabet == <<"+", "-">> \o Digits \o <<":", "A", "B", "C", "D", "E", "F", "T">>
            \o <<"a", "b", "c", "d", "e", "f", "|">>

IsDigit(c) == \E n \in 1..Len(Digits) : Digits[n] = c
IsHexDigit(c) == \E n \in 1..Len(HexDigits) : HexDigits[n] = c
DigitValue(c) == (CHOOSE n \in 1..Len(HexDigits) : HexDigits[n] = c) - 1
ord(c) == CHOOSE n \in 1..Len(Alphabet) : Alphabet[n] = c

\* str.__lt__: the first character that differs decides, a proper prefix is less
RECURSIVE StrLess(_, _)
StrLess(s, t) ==
  IF t = <<>> THEN FALSE
  ELSE IF s = <<>> THEN TRUE
  ELSE IF s[1] = t[1] THEN StrLess(Tail(s), Tail(t))
  ELSE ord(s[1]) < ord(t[1])

\* int(s) and int(s, 16)
RECURSIVE ParseInt(_, _)
ParseInt(s, base) ==
  IF s = <<>> THEN 0
  ELSE base * ParseInt(SubSeq(s, 1, Len(s) - 1), base) + DigitValue(s[Len(s)])

\* "%0<width>d" % n and "%0<width>x" % n
Format(n, base, width) ==
  [i \in 1..width |-> HexDigits[((n \div base ^ (width - i)) % base) + 1]]

IsLeap(year) == year % 4 = 0 /\ (year % 100 # 0 \/ year % 400 = 0)
DaysInMonth(year, month) ==
  IF month = 2 THEN (IF IsLeap(year) THEN 29 ELSE 28)
  ELSE IF month \in {4, 6, 9, 11} THEN 30 ELSE 31

\* days from 1970-01-01 to the date, and back (proleptic Gregorian calendar)
DaysFromCivil(year, month, day) ==
  LET y == IF month <= 2 THEN year - 1 ELSE year
      era == y \div 400
      yoe == y - era * 400
      doy == (153 * (IF month > 2 THEN month - 3 ELSE month + 9) + 2) \div 5 + day - 1
      doe == yoe * 365 + yoe \div 4 - yoe \div 100 + doy
  IN era * 146097 + doe - 719468

CivilFromDays(days) ==
  LET z == days + 719468
      era == z \div 146097
      doe == z - era * 146097
      yoe == (doe - doe \div 1460 + doe \div 36524 - doe \div 146096) \div 365
      doy == doe - (365 * yoe + yoe \div 4 - yoe \div 100)
      mp == (5 * doy + 2) \div 153
      month == IF mp < 10 THEN mp + 3 ELSE mp - 9
  IN [year |-> yoe + era * 400 + (IF month <= 2 THEN 1 ELSE 0),
      month |-> month,
      day |-> doy - (153 * mp + 2) \div 5 + 1]

\* a datetime: its fields and its UTC offset (None when it is naive)
DateTimeOf(date, hour, minute, second, utcoffset) ==
  [year |-> date.year, month |-> date.month, day |-> date.day,
   hour |-> hour, minute |-> minute, second |-> second, utcoffset |-> utcoffset]

\* calendar.timegm(dt.timetuple())
timegm(dt) ==
  ((DaysFromCivil(dt.year, dt.month, dt.day) * 24 + dt.hour) * 60 + dt.minute) * 60 + dt.second

\* datetime.fromtimestamp(timestamp, utc)
fromtimestamp(timestamp) ==
  DateTimeOf(CivilFromDays(timestamp \div 86400), (timestamp % 86400) \div 3600,
             (timestamp % 3600) \div 60, timestamp % 60, Some(0))

\* what a call gives back: a value of some type, or the exception it raised
Returned(type, value) == [type |-> type, value |-> value]
Raised(exception) == [type |-> exception, value |-> <<>>]
IsRaised(result) == result.type \in {"ValueError", "InvalidStreamSortException"}

\* bson.ObjectId(oid) for 24 hex characters: 12 bytes, a 4-byte big-endian
\* timestamp and 8 more bytes
ObjectId(oid) == [timestamp |-> ParseInt(SubSeq(oid, 1, 8), 16), tail |-> SubSeq(oid, 9, 24)]
\* str(ObjectId): the 24 hex characters
ObjectId_str(o) == Format(o.timestamp, 16, 8) \o o.tail
\* ObjectId.generation_time
generation_time(o) == fromtimestamp(o.timestamp)
\* the timestamp followed by the greatest 8 bytes instead of the least
ObjectId_from_datetime_greatest(dt) ==
  [timestamp |-> timegm(dt) - (IF dt.utcoffset = None THEN 0 ELSE The(dt.utcoffset)),
   tail |-> [i \in 1..16 |-> "f"]]

\* ObjectId.from_datetime: the timestamp of the datetime in UTC, then 8 zero bytes
ObjectId_from_datetime(dt) ==
  [timestamp |-> timegm(dt) - (IF dt.utcoffset = None THEN 0 ELSE The(dt.utcoffset)),
   tail |-> [i \in 1..16 |-> "0"]]
\* ObjectId.__lt__, and the order of $gt and of sort ASCENDING: the 12 bytes
ObjectIdLess(a, b) ==
  a.timestamp < b.timestamp \/ (a.timestamp = b.timestamp /\ StrLess(a.tail, b.tail))

\* datetime.fromisoformat for "YYYY-MM-DD" and "YYYY-MM-DDTHH:MM:SS+00:00"
datetime_fromisoformat(s) ==
  LET hasTime == Len(s) > 10
      date == [year |-> ParseInt(SubSeq(s, 1, 4), 10),
               month |-> ParseInt(SubSeq(s, 6, 7), 10),
               day |-> ParseInt(SubSeq(s, 9, 10), 10)]
      hour == IF hasTime THEN ParseInt(SubSeq(s, 12, 13), 10) ELSE 0
      minute == IF hasTime THEN ParseInt(SubSeq(s, 15, 16), 10) ELSE 0
      second == IF hasTime THEN ParseInt(SubSeq(s, 18, 19), 10) ELSE 0
  IN IF /\ date.year >= 1
        /\ date.month \in 1..12
        /\ date.day \in 1..DaysInMonth(date.year, date.month)
        /\ hour <= 23 /\ minute <= 59 /\ second <= 59
     THEN Returned("datetime", DateTimeOf(date, hour, minute, second,
                                          IF hasTime THEN Some(0) ELSE None))
     ELSE Raised("ValueError")

\* datetime.isoformat(): the offset is written only for an aware datetime
datetime_isoformat(dt) ==
  Format(dt.year, 10, 4) \o <<"-">> \o Format(dt.month, 10, 2) \o <<"-">>
  \o Format(dt.day, 10, 2) \o <<"T">> \o Format(dt.hour, 10, 2) \o <<":">>
  \o Format(dt.minute, 10, 2) \o <<":">> \o Format(dt.second, 10, 2)
  \o (IF dt.utcoffset = None THEN <<>> ELSE <<"+", "0", "0", ":", "0", "0">>)

(* ----------------------------- IncrementalId --------------------------- *)
\* re.match(IncrementalId.PATTERN, id_string): None, or the groups dt and oid
PATTERN(id_string) ==
  LET s == id_string
      digits(from, to) == \A i \in from..to : IsDigit(s[i])
      hasTime == Len(s) > 10 /\ s[11] = "T"
      dtLen == IF hasTime THEN 25 ELSE 10
  IN IF /\ Len(s) >= dtLen
        /\ digits(1, 4) /\ s[5] = "-" /\ digits(6, 7) /\ s[8] = "-" /\ digits(9, 10)
        /\ hasTime => /\ digits(12, 13) /\ s[14] = ":" /\ digits(15, 16) /\ s[17] = ":"
                      /\ digits(18, 19)
                      /\ SubSeq(s, 20, 25) = <<"+", "0", "0", ":", "0", "0">>
        /\ \/ Len(s) = dtLen
           \/ /\ Len(s) = dtLen + 25
              /\ s[dtLen + 1] = "|"
              /\ \A i \in dtLen + 2..dtLen + 25 : IsHexDigit(s[i])
     THEN Some([dt |-> SubSeq(s, 1, dtLen),
                oid |-> IF Len(s) = dtLen THEN None ELSE Some(SubSeq(s, dtLen + 2, Len(s)))])
     ELSE None

\* IncrementalId.__init__
IncrementalId(datetime_part, object_id_part) ==
  [_datetime |-> datetime_part, _object_id |-> object_id_part]

\* the key of earlier versions: the datetime alone
IncrementalId_str_datetime_only(self) == datetime_isoformat(self._datetime)

\* IncrementalId.__str__
IncrementalId_str(self) ==
  datetime_isoformat(self._datetime)
  \o (IF self._object_id # None /\ The(self._object_id) # <<>>
      THEN <<"|">> \o The(self._object_id)
      ELSE <<>>)

\* the property without its second return: the ObjectId is always made from the datetime
IncrementalId_object_id_from_datetime(self) == ObjectId_from_datetime(self._datetime)

\* IncrementalId.object_id
IncrementalId_object_id(self) ==
  IF self._object_id = None
  THEN ObjectId_from_datetime(self._datetime)
  ELSE ObjectId(The(self._object_id))

\* IncrementalId.from_string
from_string(id_string) ==
  LET matched == PATTERN(id_string) IN
  IF matched = None
  THEN Raised("ValueError")
  ELSE LET datetime_part == datetime_fromisoformat(The(matched).dt) IN
       IF IsRaised(datetime_part)
       THEN datetime_part
       ELSE Returned("IncrementalId", IncrementalId(datetime_part.value, The(matched).oid))

\* IncrementalId.from_object_id; the argument is None or an ObjectId
from_object_id(object_id) ==
  IF object_id = None
  THEN Raised("ValueError")
  ELSE Returned("IncrementalId",
                IncrementalId(generation_time(The(object_id)),
                              Some(ObjectId_str(The(object_id)))))

(* ---------------------------- state advancement ------------------------ *)
\* MongoDBCollectionStream.replication_key (line 54)
replication_key == "replication_key"
\* Stream.check_sorted, which the tap does not override
check_sorted == TRUE

\* line 110 with the other method: the log-based stream is the sorted one
is_sorted_log_based(method) == method = REPLICATION_LOG_BASED

\* lines 101-110
is_sorted(method) == method = REPLICATION_INCREMENTAL

\* the exception that leaves a reader or the state advancement
Exception(kind) == [kind |-> kind, code |-> 0, modifyMsg |-> FALSE]

\* singer_sdk increment_state: the bookmark becomes the record's value of the
\* replication key; a sorted stream fails when that value is less than the bookmark
increment_state(state, key, latest_record, sorted, check) ==
  IF /\ sorted
     /\ check
     /\ state.replication_key_value # None
     /\ StrLess(latest_record[key], The(state.replication_key_value))
  THEN Raised("InvalidStreamSortException")
  ELSE Returned("state", [state EXCEPT !.replication_key_value = Some(latest_record[key])])

\* lines 148-151; line 149 tests `not treat_as_sorted`, so line 151 changes nothing
treat_as_sorted(method, partitioning_keys) ==
  IF ~is_sorted(method) /\ partitioning_keys # None THEN FALSE ELSE is_sorted(method)

\* lines 126-158
increment_stream_state(state, method, partitioning_keys, latest_record) ==
  IF method \notin {REPLICATION_INCREMENTAL, REPLICATION_LOG_BASED}
  THEN Raised("ValueError")
  ELSE IF replication_key = ""
  THEN Raised("ValueError")
  ELSE increment_state(state, replication_key, latest_record,
                       treat_as_sorted(method, partitioning_keys), check_sorted)

(* --------------------------- incremental reader ------------------------ *)
\* the characters of DEFAULT_START_DATE
DefaultStartDate == <<"1", "9", "7", "0", "-", "0", "1", "-", "0", "1">>

\* utils.to_object_id: the string parsed as an IncrementalId, and its object_id
to_object_id(replication_key_value) ==
  LET incremental_id == from_string(replication_key_value) IN
  IF IsRaised(incremental_id)
  THEN incremental_id
  ELSE Returned("ObjectId", IncrementalId_object_id(incremental_id.value))

\* lines 197-203 with the bookmark left out: the lower bound is always the start date
StartDateStringIgnoringBookmark(bm, cfg) ==
  IF "start_date" \in DOMAIN cfg THEN cfg.start_date ELSE DefaultStartDate

\* lines 197-203: the string the lower bound is made from
StartDateString(bm, cfg) ==
  IF bm # None /\ The(bm) # <<>>
  THEN The(bm)
  ELSE IF "start_date" \in DOMAIN cfg THEN cfg.start_date ELSE DefaultStartDate

\* line 205 with $gte in place of $gt
FindGte(documents, lower) ==
  {d \in documents : ~ObjectIdLess(d._id, lower)}

\* line 205: the filter {"_id": {"$gt": start_date}}
Find(documents, lower) == {d \in documents : ObjectIdLess(lower, d._id)}

\* line 205 with DESCENDING
RECURSIVE SortDescending(_)
SortDescending(documents) ==
  IF documents = {} THEN <<>>
  ELSE LET first == CHOOSE d \in documents :
                      \A e \in documents \ {d} : ObjectIdLess(e._id, d._id)
       IN <<first>> \o SortDescending(documents \ {first})

\* line 205: sort([("_id", ASCENDING)]), the documents in the order the cursor returns them
RECURSIVE SortAscending(_)
SortAscending(documents) ==
  IF documents = {} THEN <<>>
  ELSE LET first == CHOOSE d \in documents :
                      \A e \in documents \ {d} : ObjectIdLess(d._id, e._id)
       IN <<first>> \o SortAscending(documents \ {first})

\* lines 32-48 for a document without nested values: +inf and -inf become
\* None; a NaN read from the engine is not the object math.nan and is equal
\* to nothing, so the test of line 38 leaves it
recursive_replace_empty_in_dict(dct) ==
  [key \in DOMAIN dct |->
     IF key # "_id" /\ dct[key] # None /\ The(dct[key]).float \in {"inf", "-inf"}
     THEN None
     ELSE dct[key]]

\* lines 218-221 left out: the namespace is null, as in the dummy record
IncrementalRecordWithoutNamespace(record, meta, position) ==
  (IF meta THEN [_sdc_batched_at |-> utc_now(position)] ELSE <<>>) @@
  [replication_key |-> IncrementalId_str(from_object_id(Some(record._id)).value),
   object_id |-> Some(ObjectId_str(record._id)),
   document |-> Some(recursive_replace_empty_in_dict(record)),
   operation_type |-> None,
   cluster_time |-> None,
   update_description |-> None,
   namespace |-> None,
   to |-> None]

\* lines 206-225
IncrementalRecord(record, meta, position) ==
  (IF meta THEN [_sdc_batched_at |-> utc_now(position)] ELSE <<>>) @@
  [replication_key |-> IncrementalId_str(from_object_id(Some(record._id)).value),
   object_id |-> Some(ObjectId_str(record._id)),
   document |-> Some(recursive_replace_empty_in_dict(record)),
   operation_type |-> None,
   cluster_time |-> None,
   update_description |-> None,
   namespace |-> Some([database |-> DatabaseName, collection |-> CollectionName]),
   to |-> None]

(* --------------------------- document sanitizer ------------------------ *)
\* a Python or BSON value: its type and what it holds.  A dict holds a
\* function from its keys, a list a sequence, bytes the sequence of their
\* values, a str the sequence of its characters, a float its repr
Value(type, value) == [type |-> type, value |-> value]

\* lines 38 and 44: `x in [-math.inf, math.inf, math.nan]` is true of a value
\* that equals one of the three or is one of them; a NaN equals nothing, so
\* of the NaNs only the object math.nan itself passes the test
InEmptyFloats(x) == x.type = "float" /\ x.value \in {"-inf", "inf", "math.nan"}

\* lines 32-48 for a dict of any depth whose values are typed values; the dict
\* is changed in place and returned, which is the dict built here
RECURSIVE recursive_replace_empty_in_nested_dict(_)
recursive_replace_empty_in_nested_dict(dct) ==
  Value("dict",
    [key \in DOMAIN dct.value |->
       LET value == dct.value[key] IN
       IF InEmptyFloats(value) THEN Value("NoneType", <<>>)
       ELSE IF value.type = "list"
       THEN Value("list",
              [i \in 1..Len(value.value) |->
                 LET item == value.value[i] IN
                 IF item.type = "dict" THEN recursive_replace_empty_in_nested_dict(item)
                 ELSE IF InEmptyFloats(item) THEN Value("NoneType", <<>>)
                 ELSE item])
       ELSE IF value.type = "dict" THEN recursive_replace_empty_in_nested_dict(value)
       ELSE value])

\* the base64 alphabet
Base64 ==
  <<"A", "B", "C", "D", "E", "F", "G", "H", "I", "J", "K", "L", "M", "N", "O", "P",
    "Q", "R", "S", "T", "U", "V", "W", "X", "Y", "Z", "a", "b", "c", "d", "e", "f",
    "g", "h", "i", "j", "k", "l", "m", "n", "o", "p", "q", "r", "s", "t", "u", "v",
    "w", "x", "y", "z", "0", "1", "2", "3", "4", "5", "6", "7", "8", "9", "+", "/">>

\* base64.b64encode(data).decode('utf-8'): three bytes give four characters,
\* a last group of one or two bytes is padded with "="
RECURSIVE b64encode(_)
b64encode(data) ==
  LET byte(i) == IF i <= Len(data) THEN data[i] ELSE 0
      group == (byte(1) * 256 + byte(2)) * 256 + byte(3)
      sextet(k) == Base64[((group \div 64 ^ (4 - k)) % 64) + 1]
  IN IF data = <<>> THEN <<>>
     ELSE IF Len(data) = 1 THEN <<sextet(1), sextet(2), "=", "=">>
     ELSE IF Len(data) = 2 THEN <<sextet(1), sextet(2), sextet(3), "=">>
     ELSE <<sextet(1), sextet(2), sextet(3), sextet(4)>> \o b64encode(SubSeq(data, 4, Len(data)))

\* str(uuid.UUID): the 32 hex characters in groups of 8, 4, 4, 4 and 12
UUID_str(hex) ==
  SubSeq(hex, 1, 8) \o <<"-">> \o SubSeq(hex, 9, 12) \o <<"-">> \o SubSeq(hex, 13, 16)
  \o <<"-">> \o SubSeq(hex, 17, 20) \o <<"-">> \o SubSeq(hex, 21, 32)

\* a str is returned as its JSON text, in quotes, instead of unchanged
RECURSIVE sanitize_doc_quoting_str(_)
sanitize_doc_quoting_str(doc) ==
  IF doc.type = "ObjectId" THEN Value("str", ObjectId_str(doc.value))
  ELSE IF doc.type = "UUID" THEN Value("str", UUID_str(doc.value))
  ELSE IF doc.type = "datetime" THEN Value("str", datetime_isoformat(doc.value))
  ELSE IF doc.type = "Binary" THEN Value("str", b64encode(doc.value.data))
  ELSE IF doc.type = "bytes" THEN Value("str", b64encode(doc.value))
  ELSE IF doc.type = "dict"
  THEN Value("dict", [key \in DOMAIN doc.value |-> sanitize_doc_quoting_str(doc.value[key])])
  ELSE IF doc.type = "list"
  THEN Value("list", [i \in 1..Len(doc.value) |-> sanitize_doc_quoting_str(doc.value[i])])
  ELSE IF doc.type = "str" THEN Value("str", <<"'">> \o doc.value \o <<"'">>)
  ELSE doc

\* what the argument of sanitize_doc holds when the call has returned: lines
\* 56-59 build a new dict and a new list, and no line assigns to doc or
\* into it
doc_after_sanitize_doc(doc) == doc

\* utils.sanitize_doc
RECURSIVE sanitize_doc(_)
sanitize_doc(doc) ==
  IF doc.type = "ObjectId" THEN Value("str", ObjectId_str(doc.value))
  ELSE IF doc.type = "UUID" THEN Value("str", UUID_str(doc.value))
  ELSE IF doc.type = "datetime" THEN Value("str", datetime_isoformat(doc.value))
  ELSE IF doc.type = "Binary" THEN Value("str", b64encode(doc.value.data))
  ELSE IF doc.type = "bytes" THEN Value("str", b64encode(doc.value))
  ELSE IF doc.type = "dict"
  THEN Value("dict", [key \in DOMAIN doc.value |-> sanitize_doc(doc.value[key])])
  ELSE IF doc.type = "list"
  THEN Value("list", [i \in 1..Len(doc.value) |-> sanitize_doc(doc.value[i])])
  ELSE doc

(* ----------------------------- record emitter -------------------------- *)
\* Stream.name: the tap_stream_id of the catalog entry
StreamName == "test_db_orders"

\* lines 174-191: _sdc_extracted_at is popped from the record and becomes
\* time_extracted, utc_now() when the record has no such key; nothing is
\* deselected, the conformance level is NONE and the one stream map is the
\* identity, so the rest of the record is the payload
generate_record_message(record, now) ==
  [stream |-> StreamName,
   record |-> Pop(record, "_sdc_extracted_at"),
   version |-> None,
   time_extracted |-> IF "_sdc_extracted_at" \in DOMAIN record
                      THEN record._sdc_extracted_at
                      ELSE now]

(* ------------------------------- actions ------------------------------- *)
\* a state entry that holds no bookmark yet
EmptyState == [replication_key_value |-> None]

\* no incremental run and no codec call is under way
IncrementalIdle ==
  /\ collection = {}
  /\ start_date = None
  /\ cursor = <<>>
  /\ previous_run = None
CodecIdle == call = None /\ returned = None

\* the locals of the log-based reader before it runs, and an engine that has
\* not been called
LogBasedIdle ==
  /\ resume_strategy = "unset"
  /\ change_stream_options = BaseOptions
  /\ has_seen_a_real_record = FALSE
  /\ keep_open = TRUE
  /\ change_stream = None
  /\ released_streams = {}
  /\ watch_calls = <<>>
  /\ admin_commands = <<>>
  /\ delivered = <<>>
  /\ oplog = 1
  /\ reopens = 0
  /\ idle_polls_odd = FALSE

\* a log-based run: get_records takes the branch of lines 414-415.  A
\* stream that has a persisted token is run without start_date: its bookmark
\* is the token whatever start_date is
Init ==
  /\ replication_method = REPLICATION_LOG_BASED
  /\ state_partitioning_keys = None
  /\ stream_state \in PersistedStates
  /\ state_history = <<>>
  /\ IncrementalIdle
  /\ CodecIdle
  /\ engine \in Engines
  /\ config \in LogBasedConfigs
  /\ "start_date" \in DOMAIN config => stream_state.replication_key_value = None
  /\ mongo_version \in Versions
  /\ Connected(mongo_version)
  /\ bookmark = get_starting_replication_key_value(stream_state, config)
  /\ pc = "start"
  /\ resume_strategy = "unset"
  /\ change_stream_options = BaseOptions
  /\ has_seen_a_real_record = FALSE
  /\ keep_open = TRUE
  /\ change_stream = None
  /\ released_streams = {}
  /\ watch_calls = <<>>
  /\ admin_commands = <<>>
  /\ yielded = <<>>
  /\ emitted = <<>>
  /\ delivered = <<>>
  /\ raised = None
  /\ oplog = 1
  /\ reopens = 0
  /\ idle_polls_odd = FALSE

\* lines 233-248: the resume strategy, the options, the two flags
Start ==
  /\ pc = "start"
  /\ resume_strategy' = get_resume_strategy(mongo_version, config.change_stream_resume_strategy)
  /\ IF IsStrategy(resume_strategy')
     THEN /\ change_stream_options' = InitialOptions(bookmark, resume_strategy')
          /\ pc' = "watch"
          /\ raised' = raised
     ELSE /\ change_stream_options' = BaseOptions
          /\ pc' = "fatal"
          /\ raised' = Some([kind |-> resume_strategy', code |-> 0, modifyMsg |-> FALSE])
  /\ has_seen_a_real_record' = FALSE
  /\ keep_open' = TRUE
  /\ UNCHANGED <<envConfig, notLogBased, released_streams,
                 change_stream, watch_calls, admin_commands, yielded, emitted,
                 delivered, oplog, reopens, idle_polls_odd>>

\* collection.watch(**change_stream_options) returning a stream
WatchReturns(next_pc) ==
  /\ watch_calls' = Append(watch_calls, [options |-> change_stream_options, raised |-> None])
  /\ change_stream' = Some(OpenedStream(engine, oplog, Len(watch_calls) + 1))
  /\ pc' = next_pc

\* line 251, the call succeeds
WatchOk ==
  /\ pc = "watch"
  /\ WatchReturns("poll")
  /\ UNCHANGED <<envConfig, notLogBased, released_streams,
                 resume_strategy, change_stream_options, has_seen_a_real_record,
                 keep_open, admin_commands, yielded, emitted, delivered, raised, oplog, reopens,
                 idle_polls_odd>>

\* lines 251-289, the call raises
WatchFails(failure) ==
  /\ pc = "watch"
  /\ watch_calls' = Append(watch_calls, [options |-> change_stream_options,
                                         raised |-> Some(failure)])
  /\ IF ShouldEnableChangeStreams(failure, config)
     THEN /\ pc' = "enable"
          /\ UNCHANGED <<change_stream_options, raised>>
     ELSE IF IsTokenInvalid(failure)
     THEN /\ pc' = "reopen"
          /\ change_stream_options' = DropResumeOptions(change_stream_options)
          /\ UNCHANGED raised
     ELSE /\ pc' = "fatal"
          /\ raised' = Some(failure)
          /\ UNCHANGED change_stream_options
  /\ UNCHANGED <<envConfig, notLogBased, released_streams,
                 resume_strategy, has_seen_a_real_record, keep_open, change_stream,
                 admin_commands, yielded, emitted, delivered, oplog, reopens, idle_polls_odd>>

ModifyChangeStreams ==
  [command |-> "modifyChangeStreams", database |-> DatabaseName,
   collection |-> CollectionName, enable |-> TRUE]

\* lines 259-271: the admin command returns a result
EnableChangeStreamsReturns(result) ==
  /\ pc = "enable"
  /\ admin_commands' = Append(admin_commands, ModifyChangeStreams)
  /\ IF ResultOk(result)
     THEN pc' = "retry" /\ UNCHANGED raised
     ELSE pc' = "fatal" /\ raised' = Some(CannotEnableChangeStream)
  /\ UNCHANGED <<envConfig, notLogBased, released_streams,
                 resume_strategy, change_stream_options, has_seen_a_real_record,
                 keep_open, change_stream, watch_calls, yielded, emitted, delivered, oplog, reopens,
                 idle_polls_odd>>

\* lines 259-265: the admin command raises inside the except block
EnableChangeStreamsRaises(failure) ==
  /\ pc = "enable"
  /\ admin_commands' = Append(admin_commands, ModifyChangeStreams)
  /\ pc' = "fatal"
  /\ raised' = Some(failure)
  /\ UNCHANGED <<envConfig, notLogBased, released_streams,
                 resume_strategy, change_stream_options, has_seen_a_real_record,
                 keep_open, change_stream, watch_calls, yielded, emitted, delivered, oplog, reopens,
                 idle_polls_odd>>

\* line 267 (after the admin command) and line 279 (after code 286): the
\* second collection.watch, inside the except block
SecondWatchOk ==
  /\ pc \in {"retry", "reopen"}
  /\ WatchReturns("poll")
  /\ UNCHANGED <<envConfig, notLogBased, released_streams,
                 resume_strategy, change_stream_options, has_seen_a_real_record,
                 keep_open, admin_commands, yielded, emitted, delivered, raised, oplog, reopens,
                 idle_polls_odd>>

SecondWatchFails(failure) ==
  /\ pc \in {"retry", "reopen"}
  /\ watch_calls' = Append(watch_calls, [options |-> change_stream_options,
                                         raised |-> Some(failure)])
  /\ pc' = "fatal"
  /\ raised' = Some(failure)
  /\ UNCHANGED <<envConfig, notLogBased, released_streams,
                 resume_strategy, change_stream_options, has_seen_a_real_record,
                 keep_open, change_stream, admin_commands, yielded, emitted, delivered, oplog, reopens,
                 idle_polls_odd>>

\* line 291: the loop condition
LoopRuns == The(change_stream).alive /\ keep_open

\* lines 324-356 passed over: a tick without an event changes nothing
HandleNoneSkipped(stream) == UNCHANGED <<yielded, emitted, keep_open>>

\* line 351 left out: the dummy record does not end the loop
HandleNoneKeepingOpen(stream) ==
  /\ yielded' = IF ShouldYieldDummy(None, has_seen_a_real_record, stream)
                THEN Append(yielded, DummyRecord(stream, config.add_record_metadata, oplog))
                ELSE yielded
  /\ emitted' = IF yielded' = yielded
                THEN emitted
                ELSE Append(emitted, generate_record_message(yielded'[Len(yielded')], utc_now(oplog)))
  /\ keep_open' = IF CaughtUp(None, has_seen_a_real_record) THEN FALSE ELSE keep_open

\* lines 324-356 for record = None on the stream `stream`
HandleNone(stream) ==
  /\ yielded' = IF ShouldYieldDummy(None, has_seen_a_real_record, stream)
                THEN Append(yielded, DummyRecord(stream, config.add_record_metadata, oplog))
                ELSE yielded
  /\ emitted' = IF yielded' = yielded
                THEN emitted
                ELSE Append(emitted, generate_record_message(yielded'[Len(yielded')], utc_now(oplog)))
  /\ keep_open' = IF \/ ShouldYieldDummy(None, has_seen_a_real_record, stream)
                     \/ CaughtUp(None, has_seen_a_real_record)
                  THEN FALSE
                  ELSE keep_open

\* line 294 returns an event; lines 357-403
TryNextEvent(shape) ==
  /\ pc = "poll"
  /\ LoopRuns
  /\ Len(delivered) < MaxEvents
  /\ LET record == EventAt(shape, oplog + 1) IN
     /\ delivered' = Append(delivered, record)
     /\ oplog' = oplog + 1
     /\ change_stream' = Some([The(change_stream) EXCEPT
                                 !.resume_token = Some(record._id),
                                 !.alive = record.operationType # "invalidate"])
     /\ IF InAllowlist(record.operationType, config.operation_types)
        THEN /\ yielded' = Append(yielded, ParsedRecord(record, config.add_record_metadata, oplog'))
             /\ emitted' = Append(emitted, generate_record_message(yielded'[Len(yielded')], utc_now(oplog')))
             /\ has_seen_a_real_record' = TRUE
        ELSE UNCHANGED <<yielded, emitted, has_seen_a_real_record>>
  /\ idle_polls_odd' = FALSE
  /\ UNCHANGED <<envConfig, notLogBased, released_streams,
                 pc, resume_strategy, change_stream_options, keep_open, watch_calls,
                 admin_commands, raised, reopens>>

\* line 294 returns None; lines 324-356
TryNextNone ==
  /\ pc = "poll"
  /\ LoopRuns
  /\ HandleNone(The(change_stream))
  /\ idle_polls_odd' = IF keep_open' THEN ~idle_polls_odd ELSE FALSE
  /\ UNCHANGED <<envConfig, notLogBased, released_streams,
                 pc, resume_strategy, change_stream_options, has_seen_a_real_record,
                 change_stream, watch_calls, admin_commands, delivered, raised, oplog, reopens>>

\* line 294 raises; lines 295-312 up to the call of collection.watch
TryNextFails(failure) ==
  /\ pc = "poll"
  /\ LoopRuns
  /\ IF IsTokenInvalid(failure)
     THEN /\ reopens < MaxReopens
          /\ reopens' = reopens + 1
          /\ change_stream_options' = DropResumeOptions(change_stream_options)
          /\ pc' = "reopen_in_poll"
          /\ UNCHANGED raised
     ELSE /\ pc' = "fatal"
          /\ raised' = Some(failure)
          /\ UNCHANGED <<reopens, change_stream_options>>
  /\ idle_polls_odd' = FALSE
  /\ UNCHANGED <<envConfig, notLogBased, released_streams,
                 resume_strategy, has_seen_a_real_record, keep_open, change_stream,
                 watch_calls, admin_commands, yielded, emitted, delivered, oplog>>

\* line 303 returns a stream and rebinds change_stream, which lets go of the
\* stream that failed; line 304 sets record = None; lines 324-356
ReopenInPollOk ==
  /\ pc = "reopen_in_poll"
  /\ WatchReturns("poll")
  /\ HandleNone(OpenedStream(engine, oplog, Len(watch_calls) + 1))
  /\ released_streams' = released_streams \cup {The(change_stream).id}
  /\ UNCHANGED <<envConfig, notLogBased, resume_strategy, change_stream_options, has_seen_a_real_record,
                 admin_commands, delivered, raised, oplog, reopens, idle_polls_odd>>

\* line 303 raises inside the except block
ReopenInPollFails(failure) ==
  /\ pc = "reopen_in_poll"
  /\ watch_calls' = Append(watch_calls, [options |-> change_stream_options,
                                         raised |-> Some(failure)])
  /\ pc' = "fatal"
  /\ raised' = Some(failure)
  /\ UNCHANGED <<envConfig, notLogBased, released_streams,
                 resume_strategy, change_stream_options, has_seen_a_real_record,
                 keep_open, change_stream, admin_commands, yielded, emitted, delivered, oplog, reopens,
                 idle_polls_odd>>

\* line 291 is false: the generator returns and lets go of its stream (the
\* code has no call of close(): a stream is closed by being let go of)
LoopExit ==
  /\ pc = "poll"
  /\ ~LoopRuns
  /\ pc' = "done"
  /\ released_streams' = released_streams \cup {The(change_stream).id}
  /\ UNCHANGED <<envConfig, notLogBased, resume_strategy, change_stream_options, has_seen_a_real_record,
                 keep_open, change_stream, watch_calls, admin_commands, yielded, emitted, delivered,
                 raised, oplog, reopens, idle_polls_odd>>

Next ==
  \/ Start
  \/ WatchOk
  \/ \E failure \in Failures : WatchFails(failure)
  \/ \E result \in AdminResults : EnableChangeStreamsReturns(result)
  \/ \E failure \in Failures : EnableChangeStreamsRaises(failure)
  \/ SecondWatchOk
  \/ \E failure \in LaterFailures : SecondWatchFails(failure)
  \/ \E shape \in EventShapes : TryNextEvent(shape)
  \/ TryNextNone
  \/ \E failure \in LaterFailures : TryNextFails(failure)
  \/ ReopenInPollOk
  \/ \E failure \in LaterFailures : ReopenInPollFails(failure)
  \/ LoopExit

Spec == Init /\ [][Next]_vars

\* the runs against MongoDB; the generator is always resumed and the engine
\* always answers a call
MongoInit == Init /\ engine = "mongodb"
MongoLiveSpec == MongoInit /\ [][Next]_vars /\ WF_vars(Next)

(* ----------------------- the incremental reader, run -------------------- *)
\* the documents a collection can hold: two of one second, one of the next
\* second with nothing but zeros after its timestamp, one of the year 2000
Documents ==
  { [_id |-> [timestamp |-> 1632272568, tail |-> <<"1", "a", "d", "8", "c", "6", "0", "0", "0", "1", "b", "7", "d", "5", "f", "3">>],
     score |-> Some([float |-> "1.5"])],
    [_id |-> [timestamp |-> 1632272568, tail |-> <<"1", "a", "d", "8", "c", "6", "0", "0", "0", "1", "b", "7", "d", "5", "f", "4">>],
     score |-> Some([float |-> "inf"])],
    [_id |-> [timestamp |-> 1632272569, tail |-> [i \in 1..16 |-> "0"]],
     score |-> Some([float |-> "nan"])],
    [_id |-> [timestamp |-> 951782400, tail |-> <<"a", "0", "0", "0", "0", "0", "0", "0", "0", "0", "0", "0", "0", "0", "0", "0">>],
     score |-> None] }

\* the replication key of the record made from a document
KeyOf(document) == IncrementalId_str(from_object_id(Some(document._id)).value)

\* the bookmark of the state entry: none, the empty string, the key of a
\* record (its document still there or gone), a bare date, two bare datetimes
\* one second apart, and the resume token a log-based run of the same stream left
IncrementalBookmarks ==
  {None, Some(<<>>), Some(<<"8", "2", "6", "4", "A", "0">>)}
  \cup {Some(KeyOf(d)) : d \in Documents}
  \cup {Some(<<"2", "0", "2", "1", "-", "0", "9", "-", "2", "2">>), Some(<<"2", "0", "2", "1", "-", "0", "9", "-", "2", "2", "T", "0", "1", ":", "0", "2", ":", "4", "8", "+", "0", "0", ":", "0", "0">>)}
  \cup {Some(<<"2", "0", "2", "1", "-", "0", "9", "-", "2", "2", "T", "0", "1", ":", "0", "2", ":", "4", "9", "+", "0", "0", ":", "0", "0">>)}

\* config: start_date left out or set
IncrementalConfigs ==
  [add_record_metadata : BOOLEAN]
  \cup [add_record_metadata : BOOLEAN, start_date : {<<"2", "0", "2", "1", "-", "0", "9", "-", "2", "2">>}]

IncrementalInit ==
  /\ pc = "get_records"
  /\ replication_method = REPLICATION_INCREMENTAL
  /\ state_partitioning_keys = None
  /\ config \in IncrementalConfigs
  /\ collection \in {c \in SUBSET Documents : Cardinality(c) <= MaxDocuments}
  /\ bookmark \in IncrementalBookmarks
  /\ stream_state = [replication_key_value |-> bookmark]
  /\ state_history = <<>>
  /\ start_date = None
  /\ cursor = <<>>
  /\ previous_run = None
  /\ engine = "mongodb"
  /\ mongo_version = <<4, 2>>
  /\ Connected(mongo_version)
  /\ yielded = <<>>
  /\ emitted = <<>>
  /\ raised = None
  /\ LogBasedIdle
  /\ CodecIdle

\* lines 411-412 and 197-205: the lower bound, and the cursor of the find
GetRecordsIncremental ==
  /\ pc = "get_records"
  /\ replication_method = REPLICATION_INCREMENTAL
  /\ LET lower == to_object_id(StartDateString(bookmark, config)) IN
     IF IsRaised(lower)
     THEN /\ pc' = "fatal"
          /\ raised' = Some(Exception(lower.type))
          /\ UNCHANGED <<start_date, cursor>>
     ELSE /\ pc' = "iterate"
          /\ start_date' = Some(lower.value)
          /\ cursor' = SortAscending(Find(collection, lower.value))
          /\ UNCHANGED raised
  /\ UNCHANGED <<envConfig, logBasedVars, stateVars, codecVars, collection, previous_run,
                 yielded, emitted>>

\* lines 205-226: the cursor returns a document and the record made of it is yielded
YieldIncremental ==
  /\ pc = "iterate"
  /\ cursor # <<>>
  /\ yielded' = Append(yielded, IncrementalRecord(Head(cursor), config.add_record_metadata, oplog))
  /\ emitted' = Append(emitted, generate_record_message(yielded'[Len(yielded')], utc_now(oplog)))
  /\ cursor' = Tail(cursor)
  /\ pc' = "advance"
  /\ UNCHANGED <<envConfig, logBasedVars, stateVars, codecVars, collection, start_date,
                 previous_run, raised>>

\* lines 112-158, called with latest_record
IncrementStreamState(latest_record, next_pc) ==
  /\ LET result == increment_stream_state(stream_state, replication_method,
                                          state_partitioning_keys, latest_record) IN
     IF IsRaised(result)
     THEN /\ pc' = "fatal"
          /\ raised' = Some(Exception(result.type))
          /\ UNCHANGED <<stream_state, state_history>>
     ELSE /\ pc' = next_pc
          /\ stream_state' = result.value
          /\ state_history' = Append(state_history, result.value.replication_key_value)
          /\ UNCHANGED raised
  /\ UNCHANGED <<envConfig, logBasedVars, incrementalVars, codecVars,
                 replication_method, state_partitioning_keys>>

\* the record just yielded is passed to the state advancement
AdvanceAfterYield ==
  /\ pc = "advance"
  /\ IncrementStreamState(yielded[Len(yielded)], "iterate")
  /\ UNCHANGED <<yielded, emitted>>

\* line 205: the cursor is exhausted and the generator returns
CursorExhausted ==
  /\ pc = "iterate"
  /\ cursor = <<>>
  /\ pc' = "done"
  /\ UNCHANGED <<envConfig, logBasedVars, stateVars, incrementalVars, codecVars, yielded, emitted, raised>>

\* lines 405-407: a new run on the same collection, its bookmark the one the
\* state entry held after record i of the run that has ended
Restart(i) ==
  /\ pc = "done"
  /\ previous_run = None
  /\ i \in 1..Len(state_history)
  /\ previous_run' = Some([yielded |-> yielded, after |-> i])
  /\ bookmark' = state_history[i]
  /\ stream_state' = [replication_key_value |-> state_history[i]]
  /\ state_history' = <<>>
  /\ yielded' = <<>>
  /\ emitted' = <<>>
  /\ start_date' = None
  /\ cursor' = <<>>
  /\ pc' = "get_records"
  /\ UNCHANGED <<engine, config, mongo_version, connectorVars, logBasedVars, codecVars,
                 collection, raised, replication_method, state_partitioning_keys>>

IncrementalNext ==
  \/ GetRecordsIncremental
  \/ YieldIncremental
  \/ AdvanceAfterYield
  \/ CursorExhausted
  \/ \E i \in 1..MaxDocuments + 1 : Restart(i)

IncrementalSpec == IncrementalInit /\ [][IncrementalNext]_vars

(* ---------------------- the state advancement, called ------------------- *)
\* replication keys of both kinds: of incremental records, and resume tokens
StateKeys ==
  {KeyOf(d) : d \in {e \in Documents : e._id.timestamp > 951782400}}
  \cup {<<"8", "2", "6", "4", "A", "0">>, <<"8", "2", "6", "4", "A", "1">>}

StateInit ==
  /\ pc = "state"
  /\ replication_method \in {REPLICATION_INCREMENTAL, REPLICATION_LOG_BASED, "FULL_TABLE"}
  /\ state_partitioning_keys \in {None, Some(<<"region">>)}
  /\ bookmark \in {None} \cup {Some(k) : k \in StateKeys}
  /\ stream_state = [replication_key_value |-> bookmark]
  /\ state_history = <<>>
  /\ IncrementalIdle
  /\ engine = "mongodb"
  /\ config = [add_record_metadata |-> FALSE]
  /\ mongo_version = <<4, 2>>
  /\ Connected(mongo_version)
  /\ yielded = <<>>
  /\ emitted = <<>>
  /\ raised = None
  /\ LogBasedIdle
  /\ CodecIdle

\* a reader yields latest_record and it is passed to the state advancement
AdvanceState(latest_record) ==
  /\ pc = "state"
  /\ Len(yielded) < MaxAdvances
  /\ yielded' = Append(yielded, latest_record)
  /\ IncrementStreamState(latest_record, "state")
  /\ UNCHANGED emitted

StateNext == \E k \in StateKeys : AdvanceState([replication_key |-> k])

StateSpec == StateInit /\ [][StateNext]_vars

(* -------------------- the resume-strategy selector, called -------------- *)
\* server versions from 2.0 to 5.7
ServerVersions == {<<major, minor>> : major \in 2..5, minor \in 0..7}

\* the reader at its entry, on any server version and with any preference
SelectorInit ==
  /\ pc = "start"
  /\ engine = "mongodb"
  /\ config \in [allow_modify_change_streams : {FALSE},
                 add_record_metadata : {FALSE},
                 operation_types : {DefaultOperationTypes},
                 change_stream_resume_strategy : Preferences]
  /\ mongo_version \in ServerVersions
  /\ Connected(mongo_version)
  /\ bookmark = Some(TokenData[1])
  /\ yielded = <<>>
  /\ emitted = <<>>
  /\ raised = None
  /\ LogBasedIdle
  /\ replication_method = REPLICATION_LOG_BASED
  /\ state_partitioning_keys = None
  /\ stream_state = EmptyState
  /\ state_history = <<>>
  /\ IncrementalIdle
  /\ CodecIdle

\* lines 234-236 and the options built from the strategy
SelectorSpec == SelectorInit /\ [][Start]_vars

(* --------------------- the IncrementalId codec, called ------------------ *)
\* dates: the default start date, the date of the tests, a leap day, and two
\* the pattern accepts and the calendar does not have
DateStrings ==
  { <<"1", "9", "7", "0", "-", "0", "1", "-", "0", "1">>,
    <<"2", "0", "2", "1", "-", "0", "9", "-", "2", "2">>,
    <<"2", "0", "0", "0", "-", "0", "2", "-", "2", "9">>,
    <<"2", "0", "2", "1", "-", "0", "2", "-", "2", "9">>,
    <<"2", "0", "2", "1", "-", "1", "3", "-", "0", "1">> }
\* times of day, the last one an hour the clock does not have
TimeStrings ==
  { <<"T", "0", "0", ":", "0", "0", ":", "0", "0", "+", "0", "0", ":", "0", "0">>,
    <<"T", "0", "1", ":", "0", "2", ":", "4", "8", "+", "0", "0", ":", "0", "0">>,
    <<"T", "2", "4", ":", "0", "0", ":", "0", "0", "+", "0", "0", ":", "0", "0">> }
\* the id half: the separator and 24 hex characters
OidStrings ==
  { <<"|", "6", "1", "4", "a", "8", "0", "b", "8", "1", "a", "d", "8", "c", "6", "0", "0", "0", "1", "b", "7", "d", "5", "f", "3">>,
    <<"|", "0", "0", "0", "0", "0", "0", "0", "0", "0", "0", "0", "0", "0", "0", "0", "0", "0", "0", "0", "0", "0", "0", "0", "0">> }
\* strings the pattern rejects: a resume token, a datetime without offset, an
\* id half in upper case, a date cut short
OtherStrings ==
  { <<"8", "2", "6", "4", "A", "0">>,
    <<"2", "0", "2", "1", "-", "0", "9", "-", "2", "2", "T", "0", "1", ":", "0", "2", ":", "4", "8">>,
    <<"2", "0", "2", "1", "-", "0", "9", "-", "2", "2", "T", "0", "1", ":", "0", "2", ":", "4", "8", "+", "0", "0", ":", "0", "0", "|", "6", "1", "4", "A", "8", "0", "B", "8", "1", "A", "D", "8", "C", "6", "0", "0", "0", "1", "B", "7", "D", "5", "F", "3">>,
    <<"2", "0", "2", "1", "-", "0", "9", "-", "2">> }

IdStrings ==
  {d \o t \o o : d \in DateStrings, t \in TimeStrings \cup {<<>>}, o \in OidStrings \cup {<<>>}}
  \cup OtherStrings

\* generation times: the epoch, 2000-02-29T00:00:00, the times of the tests
\* and the second after
Timestamps == {0, 951782400, 1632268800, 1632272568, 1632272569}
Tails ==
  { <<"0", "0", "0", "0", "0", "0", "0", "0", "0", "0", "0", "0", "0", "0", "0", "0">>,
    <<"1", "a", "d", "8", "c", "6", "0", "0", "0", "1", "b", "7", "d", "5", "f", "3">>,
    <<"1", "a", "d", "8", "c", "6", "0", "0", "0", "1", "b", "7", "d", "5", "f", "4">>,
    <<"a", "0", "0", "0", "0", "0", "0", "0", "0", "0", "0", "0", "0", "0", "0", "0">> }
ObjectIds == {[timestamp |-> t, tail |-> x] : t \in Timestamps, x \in Tails}

\* the value the codec is first called with
CodecArguments ==
  {Returned("str", id_string) : id_string \in IdStrings}
  \cup {Returned("ObjectId", o) : o \in ObjectIds}
  \cup {Returned("NoneType", <<>>)}

\* the value the next call is made on: the argument, or what the last call returned
Current == IF returned = <<>> THEN The(call) ELSE returned[Len(returned)]

CodecInit ==
  /\ pc = "codec"
  /\ call \in {Some(argument) : argument \in CodecArguments}
  /\ returned = <<>>
  /\ engine = "mongodb"
  /\ config = [add_record_metadata |-> FALSE]
  /\ mongo_version = <<4, 2>>
  /\ Connected(mongo_version)
  /\ bookmark = None
  /\ yielded = <<>>
  /\ emitted = <<>>
  /\ raised = None
  /\ LogBasedIdle
  /\ replication_method = REPLICATION_INCREMENTAL
  /\ state_partitioning_keys = None
  /\ stream_state = EmptyState
  /\ state_history = <<>>
  /\ IncrementalIdle

\* a call on the current value; its result is kept
Calls(result) ==
  /\ pc = "codec"
  /\ Len(returned) < MaxCalls
  /\ returned' = Append(returned, result)
  /\ UNCHANGED <<envConfig, pc, yielded, emitted, raised, logBasedVars, stateVars, incrementalVars, call>>

\* IncrementalId.from_string(current)
CallFromString ==
  /\ Current.type = "str"
  /\ Calls(from_string(Current.value))

\* IncrementalId.from_object_id(current)
CallFromObjectId ==
  /\ Current.type \in {"ObjectId", "NoneType"}
  /\ Calls(from_object_id(IF Current.type = "NoneType" THEN None ELSE Some(Current.value)))

\* str(current)
CallStr ==
  /\ Current.type = "IncrementalId"
  /\ Calls(Returned("str", IncrementalId_str(Current.value)))

\* current.object_id
CallObjectId ==
  /\ Current.type = "IncrementalId"
  /\ Calls(Returned("ObjectId", IncrementalId_object_id(Current.value)))

CodecNext ==
  \/ CallFromString
  \/ CallFromObjectId
  \/ CallStr
  \/ CallObjectId

CodecSpec == CodecInit /\ [][CodecNext]_vars

(* ---------------------- the document sanitizer, called ------------------ *)
\* scalars a document read from the engine can hold, one or more of each type
Scalars ==
  { Value("ObjectId", ObjectId(<<"6", "1", "4", "a", "8", "0", "b", "8", "1", "a", "d", "8", "c", "6", "0", "0", "0", "1", "b", "7", "d", "5", "f", "3">>)),
    Value("UUID", <<"1", "2", "3", "e", "4", "5", "6", "7", "e", "8", "9", "b", "1", "2", "d", "3", "a", "4", "5", "6", "4", "2", "6", "6", "1", "4", "1", "7", "4", "0", "0", "0">>),
    Value("datetime", fromtimestamp(1632272568)),
    Value("datetime", DateTimeOf([year |-> 2021, month |-> 9, day |-> 22], 0, 0, 0, None)),
    Value("Binary", [data |-> <<104, 105>>, subtype |-> 0]),
    Value("bytes", <<0, 255, 16, 7>>),
    Value("float", "1.5"),
    Value("float", "inf"),
    Value("float", "-inf"),
    Value("float", "nan"),
    Value("int", 7),
    Value("str", <<"a", "b">>),
    Value("bool", TRUE),
    Value("NoneType", <<>>) }

\* a scalar, and the scalar inside lists and dicts, up to three levels down
Nested(x) ==
  { x,
    Value("list", <<x, Value("int", 7)>>),
    Value("dict", [a |-> x]),
    Value("list", <<Value("list", <<x>>)>>),
    Value("dict", [a |-> Value("dict", [b |-> Value("list", <<x, x>>)]), c |-> x]) }

SanitizerArguments == UNION {Nested(x) : x \in Scalars}

SanitizerInit ==
  /\ pc = "sanitize"
  /\ call \in {Some(doc) : doc \in SanitizerArguments}
  /\ returned = <<>>
  /\ engine = "mongodb"
  /\ config = [add_record_metadata |-> FALSE]
  /\ mongo_version = <<4, 2>>
  /\ Connected(mongo_version)
  /\ bookmark = None
  /\ yielded = <<>>
  /\ emitted = <<>>
  /\ raised = None
  /\ LogBasedIdle
  /\ replication_method = REPLICATION_INCREMENTAL
  /\ state_partitioning_keys = None
  /\ stream_state = EmptyState
  /\ state_history = <<>>
  /\ IncrementalIdle

\* sanitize_doc(current); its result is kept, and so is what the argument of
\* the first call holds afterwards
CallSanitizeDoc ==
  /\ pc = "sanitize"
  /\ Len(returned) < MaxCalls
  /\ returned' = Append(returned, sanitize_doc(Current))
  /\ call' = IF returned = <<>> THEN Some(doc_after_sanitize_doc(The(call))) ELSE call
  /\ UNCHANGED <<envConfig, pc, yielded, emitted, raised, logBasedVars, stateVars, incrementalVars>>

SanitizerSpec == SanitizerInit /\ [][CallSanitizeDoc]_vars

(* ------------------ the replacement of empty values, called ------------- *)
\* values a document can hold: floats, among them a NaN as the engine's
\* decoder makes it and the object math.nan, and values of other types
ReplaceScalars ==
  { Value("float", "1.5"), Value("float", "inf"), Value("float", "-inf"),
    Value("float", "nan"), Value("float", "math.nan"),
    Value("int", 7), Value("str", <<"a", "b">>), Value("NoneType", <<>>) }

\* dicts that hold a value at the top, in a list, in a dict, in a list inside
\* a list, and in dicts and lists inside one another
DictsOf(x) ==
  { Value("dict", [a |-> x]),
    Value("dict", [a |-> Value("list", <<x, Value("int", 7)>>)]),
    Value("dict", [a |-> Value("dict", [b |-> x])]),
    Value("dict", [a |-> Value("list", <<Value("list", <<x>>)>>)]),
    Value("dict", [a |-> Value("list", <<Value("dict", [b |-> x])>>)]),
    Value("dict", [a |-> Value("list", <<Value("dict", [b |-> Value("list", <<x>>)])>>)]),
    Value("dict", [a |-> Value("dict", [b |-> Value("list", <<x, x>>)]), c |-> x]) }

ReplaceArguments == UNION {DictsOf(x) : x \in ReplaceScalars}

ReplaceInit ==
  /\ pc = "replace_empty"
  /\ call \in {Some(dct) : dct \in ReplaceArguments}
  /\ returned = <<>>
  /\ engine = "mongodb"
  /\ config = [add_record_metadata |-> FALSE]
  /\ mongo_version = <<4, 2>>
  /\ Connected(mongo_version)
  /\ bookmark = None
  /\ yielded = <<>>
  /\ emitted = <<>>
  /\ raised = None
  /\ LogBasedIdle
  /\ replication_method = REPLICATION_INCREMENTAL
  /\ state_partitioning_keys = None
  /\ stream_state = EmptyState
  /\ state_history = <<>>
  /\ IncrementalIdle

\* recursive_replace_empty_in_dict(current); the dict it returns is kept
CallRecursiveReplaceEmpty ==
  /\ pc = "replace_empty"
  /\ Len(returned) < MaxCalls
  /\ returned' = Append(returned, recursive_replace_empty_in_nested_dict(Current))
  /\ UNCHANGED <<envConfig, pc, yielded, emitted, raised, logBasedVars, stateVars, incrementalVars, call>>

ReplaceSpec == ReplaceInit /\ [][CallRecursiveReplaceEmpty]_vars

(* --------------------------- the connector, used ------------------------ *)
\* the local mongo_version of the log-based reader before line 234 binds it
UnboundVersion == <<0, 0>>

\* a new connector, and a stream of either method about to be read
ConnectorInit ==
  /\ pc = "get_records"
  /\ NewConnector
  /\ replication_method \in {REPLICATION_INCREMENTAL, REPLICATION_LOG_BASED}
  /\ engine = "mongodb"
  /\ config \in [allow_modify_change_streams : {FALSE},
                 add_record_metadata : {FALSE},
                 operation_types : {DefaultOperationTypes},
                 change_stream_resume_strategy : Preferences]
  /\ mongo_version = UnboundVersion
  /\ bookmark = Some(TokenData[1])
  /\ yielded = <<>>
  /\ emitted = <<>>
  /\ raised = None
  /\ LogBasedIdle
  /\ state_partitioning_keys = None
  /\ stream_state = EmptyState
  /\ state_history = <<>>
  /\ IncrementalIdle
  /\ CodecIdle

\* streams.py lines 411-415: the reader get_records hands over to
ReaderOf(method) == IF method = REPLICATION_LOG_BASED THEN "read_version" ELSE "incremental"

\* streams.py lines 407-415 with a connector that has its client: line 409
\* reads connector.database, which reads the cached mongo_client
GetRecordsCached ==
  /\ pc = "get_records"
  /\ IsCached(mongo_client)
  /\ pc' = ReaderOf(replication_method)
  /\ UNCHANGED <<envConfig, yielded, emitted, raised, logBasedVars, notLogBased>>

\* streams.py lines 407-415 with a connector that has no client yet: line 409
\* runs connector.py lines 42-53, and server_info tells the version
GetRecordsConnects(version) ==
  /\ pc = "get_records"
  /\ ~IsCached(mongo_client)
  /\ Len(server_info_calls) < MaxProbes
  /\ server_info_calls' = Append(server_info_calls, "ok")
  /\ connector_version' = Some(version)
  /\ mongo_client' = Some("MongoClient")
  /\ pc' = ReaderOf(replication_method)
  /\ UNCHANGED <<engine, config, mongo_version, bookmark, yielded, emitted, raised,
                 logBasedVars, notLogBased>>

\* the same with a server_info that raises: connector.py lines 49-52 raise
\* RuntimeError, nothing is cached and no reader runs
GetRecordsCannotConnect ==
  /\ pc = "get_records"
  /\ ~IsCached(mongo_client)
  /\ Len(server_info_calls) < MaxProbes
  /\ server_info_calls' = Append(server_info_calls, "raised")
  /\ raised' = Some(Exception("RuntimeError"))
  /\ pc' = "fatal"
  /\ UNCHANGED <<engine, config, mongo_version, bookmark, connector_version, mongo_client,
                 yielded, emitted, logBasedVars, notLogBased>>

\* streams.py line 234: the log-based reader reads connector.version
ReadVersion ==
  /\ pc = "read_version"
  /\ IF connector_version = None
     THEN pc' = "unset_version" /\ UNCHANGED mongo_version
     ELSE pc' = "start" /\ mongo_version' = The(connector_version)
  /\ UNCHANGED <<engine, config, bookmark, connectorVars, yielded, emitted, raised,
                 logBasedVars, notLogBased>>

\* get_records is called once more on a stream of the same connector
GetRecordsAgain ==
  /\ pc \in {"watch", "incremental", "fatal"}
  /\ pc' = "get_records"
  /\ raised' = None
  /\ UNCHANGED <<envConfig, yielded, emitted, logBasedVars, notLogBased>>

ConnectorNext ==
  \/ GetRecordsCached
  \/ \E version \in ServerVersions : GetRecordsConnects(version)
  \/ GetRecordsCannotConnect
  \/ ReadVersion
  \/ Start
  \/ GetRecordsAgain

ConnectorSpec == ConnectorInit /\ [][ConnectorNext]_vars

TypeOK ==
  /\ pc \in {"start", "watch", "enable", "retry", "reopen", "poll", "reopen_in_poll",
             "done", "fatal"}
  /\ has_seen_a_real_record \in BOOLEAN
  /\ keep_open \in BOOLEAN
  /\ Len(delivered) <= MaxEvents
  /\ reopens <= MaxReopens

(* ------------------------------ properties ----------------------------- *)
\* the dummy record is the one record without an operation type
IsDummy(r) == r.operation_type = None
RealRecords == SelectSeq(yielded, LAMBDA r : ~IsDummy(r))
Finished == pc \in {"done", "fatal"}

\* a pass through the loop body in which try_next returned no event and
\* raised nothing
NoEventTick ==
  /\ pc = "poll" /\ pc' = "poll"
  /\ LoopRuns
  /\ delivered' = delivered
  /\ watch_calls' = watch_calls

\* C1: a tick on which try_next returns no event, while no real record has
\* been yielded and the stream has a resume token, yields exactly one dummy
\* record (replication_key = resume_token._data, every event-derived field
\* null) and ends polling: after a dummy record the only step is the exit of
\* the loop, and it yields nothing.
C1_DummyOnIdleTick ==
  [][/\ (NoEventTick /\ RealRecords = <<>> /\ The(change_stream').resume_token # None)
        => /\ Len(yielded') = Len(yielded) + 1
           /\ SubSeq(yielded', 1, Len(yielded)) = yielded
           /\ LET d == yielded'[Len(yielded')] IN
              /\ d.replication_key = The(The(change_stream').resume_token)._data
              /\ d.object_id = None
              /\ d.document = None
              /\ d.update_description = None
              /\ d.operation_type = None
              /\ d.cluster_time = None
              /\ d.namespace = None
              /\ d.to = None
           /\ keep_open' = FALSE
     /\ (yielded # <<>> /\ IsDummy(yielded[Len(yielded)]))
        => /\ pc = "poll" /\ pc' = "done"
           /\ yielded' = yielded
           /\ delivered' = delivered
           /\ watch_calls' = watch_calls
    ]_vars

\* an idle MongoDB stream: one dummy record carrying the token of the open
\* stream, and the run is over
C1_Witness ==
  /\ pc = "done"
  /\ delivered = <<>>
  /\ Len(watch_calls) = 1
  /\ Len(yielded) = 1
  /\ IsDummy(yielded[1])
  /\ yielded[1].replication_key = The(The(change_stream).resume_token)._data

C3_MongoRunTerminates ==
  /\ [][(engine = "mongodb" /\ NoEventTick) => keep_open' = FALSE]_vars
  /\ (engine = "mongodb" /\ pc = "poll") ~> Finished

\* a MongoDB run that polled, consumed every event the engine had and ended
\* without an error
C3_Witness ==
  /\ engine = "mongodb"
  /\ pc = "done"
  /\ raised = None
  /\ Len(delivered) = MaxEvents
  /\ The(change_stream).alive

HasResumeOption(options) ==
  "resume_after" \in DOMAIN options \/ "start_after" \in DOMAIN options
IsCode(failure, code) == failure.kind = "OperationFailure" /\ failure.code = code

\* C4: a first collection.watch that fails with code 286 does not end the
\* run: both resume options are removed, every other option is kept, and
\* the next step is a second collection.watch with those options, which
\* leads to the poll loop when it returns a stream.
C4_ReopenAfter286 ==
  [][/\ \A failure \in Failures :
          (WatchFails(failure) /\ IsCode(failure, 286))
          => /\ raised' = None
             /\ pc' = "reopen"
             /\ ~HasResumeOption(change_stream_options')
             /\ change_stream_options' =
                  [k \in DOMAIN change_stream_options \ {"resume_after", "start_after"}
                     |-> change_stream_options[k]]
             /\ admin_commands' = admin_commands
     /\ pc = "reopen"
        => /\ Len(watch_calls') = 2
           /\ watch_calls'[2].options = change_stream_options
           /\ ~HasResumeOption(watch_calls'[2].options)
           /\ watch_calls'[2].raised = None => (pc' = "poll" /\ raised' = None)
    ]_vars

\* the bookmark was sent, the engine answered 286, and the run polls a
\* stream opened without a resume option
C4_Witness ==
  /\ pc = "poll"
  /\ Len(watch_calls) = 2
  /\ "start_after" \in DOMAIN watch_calls[1].options
  /\ watch_calls[1].raised # None /\ IsCode(The(watch_calls[1].raised), 286)
  /\ watch_calls[2].options = [full_document |-> "updateLookup"]
  /\ raised = None

\* C5: a first collection.watch that fails with code 136 and the message
\* "modifyChangeStreams has not been run", with allow_modify_change_streams
\* set, is answered by the admin command modifyChangeStreams {database,
\* collection, enable: true}; an ok result is followed by a collection.watch
\* with the same options, which leads to the poll loop when it returns a
\* stream; any other result raises CannotEnableChangeStream and no record
\* is yielded.
C5_EnableAndRetry ==
  [][/\ \A failure \in Failures :
          (WatchFails(failure) /\ IsCode(failure, 136) /\ failure.modifyMsg
             /\ config.allow_modify_change_streams)
          => /\ pc' = "enable"
             /\ raised' = None
             /\ change_stream_options' = change_stream_options
     /\ pc = "enable"
        => admin_commands' =
             <<[command |-> "modifyChangeStreams", database |-> DatabaseName,
                collection |-> CollectionName, enable |-> TRUE]>>
     /\ \A result \in AdminResults :
          EnableChangeStreamsReturns(result)
          => IF result = Some([ok |-> 1])
             THEN /\ pc' = "retry"
                  /\ raised' = None
                  /\ change_stream_options' = watch_calls[1].options
             ELSE /\ pc' = "fatal"
                  /\ raised' = Some(CannotEnableChangeStream)
                  /\ yielded' = <<>>
                  /\ watch_calls' = watch_calls
     /\ pc = "retry"
        => /\ Len(watch_calls') = 2
           /\ watch_calls'[2].options = watch_calls[1].options
           /\ watch_calls'[2].raised = None => (pc' = "poll" /\ raised' = None)
    ]_vars

\* change streams were enabled by the admin command and the retried open
\* succeeded
C5_Witness ==
  /\ pc = "poll"
  /\ Len(admin_commands) = 1
  /\ Len(watch_calls) = 2
  /\ watch_calls[1].raised # None /\ IsCode(The(watch_calls[1].raised), 136)
  /\ watch_calls[2].raised = None
  /\ watch_calls[2].options = watch_calls[1].options

\* C6: the admin command is issued only with allow_modify_change_streams set
\* and after the first collection.watch failed with code 136, and at most
\* once; without the option a code-136 failure of the open ends the run
\* with that error, with no record and no admin command.
C6_AdminCommandOnlyOnOptIn ==
  /\ admin_commands # <<>>
     => /\ config.allow_modify_change_streams
        /\ Len(admin_commands) = 1
        /\ watch_calls # <<>>
        /\ watch_calls[1].raised # None
        /\ IsCode(The(watch_calls[1].raised), 136)
  /\ (/\ ~config.allow_modify_change_streams
      /\ watch_calls # <<>>
      /\ watch_calls[1].raised # None
      /\ IsCode(The(watch_calls[1].raised), 136))
     => /\ pc = "fatal"
        /\ raised = watch_calls[1].raised
        /\ yielded = <<>>
        /\ admin_commands = <<>>
        /\ Len(watch_calls) = 1

\* the option is off and the open failed with code 136: the run is over
C6_Witness ==
  /\ ~config.allow_modify_change_streams
  /\ pc = "fatal"
  /\ raised # None /\ IsCode(The(raised), 136) /\ The(raised).modifyMsg
  /\ admin_commands = <<>>

Recoverable(failure) ==
  IsCode(failure, 286) \/ (IsCode(failure, 136) /\ config.allow_modify_change_streams)

\* C7: a failure of collection.watch or try_next that is neither code 286
\* nor code 136 with allow_modify_change_streams ends the run with that very
\* error: no collection.watch follows it, no record is yielded after it, and
\* nothing happens after the error has left the generator.
C7_OtherFailuresAreFatal ==
  [][/\ \A failure \in Failures :
          ((WatchFails(failure) \/ SecondWatchFails(failure) \/ ReopenInPollFails(failure))
             /\ ~Recoverable(failure))
          => /\ pc' = "fatal"
             /\ raised' = Some(failure)
             /\ yielded' = yielded
             /\ watch_calls' = Append(watch_calls, [options |-> change_stream_options,
                                                    raised |-> Some(failure)])
     /\ \A failure \in Failures :
          (TryNextFails(failure) /\ ~Recoverable(failure))
          => /\ pc' = "fatal"
             /\ raised' = Some(failure)
             /\ yielded' = yielded
             /\ watch_calls' = watch_calls
     /\ (pc = "poll" /\ LoopRuns /\ pc' # "poll" /\ pc' # "fatal") => pc' = "reopen_in_poll"
     /\ pc = "fatal" => FALSE
     /\ raised' # None => pc' = "fatal"
    ]_vars

\* try_next raised a failure other than 286 after a record had been yielded
C7_Witness ==
  /\ pc = "fatal"
  /\ yielded # <<>>
  /\ raised # None
  /\ IsCode(The(raised), CODE_OTHER)
  /\ Len(watch_calls) = 1

\* the events try_next returned whose operation type is in the configured list
AllowlistedEvents ==
  SelectSeq(delivered, LAMBDA e : e.operationType \in config.operation_types)

\* C8 as stated: every record yielded by the log-based reader has an
\* operation_type of the configured allowlist.
C8_EveryRecordAllowlisted ==
  \A i \in 1..Len(yielded) :
    /\ yielded[i].operation_type # None
    /\ The(yielded[i].operation_type) \in config.operation_types

\* C8, amended: every record yielded for a change event has an operation_type
\* of the configured allowlist and the only other record is the dummy
\* record, whose operation_type is null; an event whose operationType is not
\* in the allowlist yields no record (the real records are, one for one and
\* in order, the allowlisted events).
C8_EventRecordsAllowlisted ==
  /\ \A i \in 1..Len(yielded) :
       \/ /\ yielded[i].operation_type # None
          /\ The(yielded[i].operation_type) \in config.operation_types
       \/ /\ yielded[i].operation_type = None
          /\ yielded[i].document = None
          /\ yielded[i].cluster_time = None
          /\ i = Len(yielded)
  /\ Len(RealRecords) = Len(AllowlistedEvents)
  /\ \A i \in 1..Len(RealRecords) :
       RealRecords[i].operation_type = Some(AllowlistedEvents[i].operationType)

\* an event outside the allowlist and one inside were read: one record
C8_Witness ==
  /\ Len(delivered) = 2
  /\ delivered[1].operationType \notin config.operation_types
  /\ delivered[2].operationType \in config.operation_types
  /\ Len(yielded) = 1
  /\ yielded[1].operation_type = Some(delivered[2].operationType)
  /\ config.operation_types # DefaultOperationTypes

\* C9: the records yielded for change events carry, one for one and in the
\* order try_next returned them, the _id._data of the allowlisted events; so
\* once an allowlisted event has been read the last record yielded carries
\* the token of the last allowlisted event.
C9_ReplicationKeyIsEventToken ==
  /\ Len(RealRecords) = Len(AllowlistedEvents)
  /\ \A i \in 1..Len(RealRecords) :
       RealRecords[i].replication_key = AllowlistedEvents[i]._id._data
  /\ AllowlistedEvents # <<>>
     => /\ yielded = RealRecords
        /\ yielded[Len(yielded)].replication_key =
             AllowlistedEvents[Len(AllowlistedEvents)]._id._data

\* two allowlisted events were read and the run ended: two records, in the
\* order of the events, the last one carrying the token of the second event
C9_Witness ==
  /\ pc = "done"
  /\ Len(delivered) = 2
  /\ Len(yielded) = 2
  /\ yielded[1].replication_key = delivered[1]._id._data
  /\ yielded[2].replication_key = delivered[2]._id._data
  /\ yielded[1].replication_key # yielded[2].replication_key

\* C10: the document of the record of an event is the event's fullDocument
\* when the event has the key, else its documentKey when it has that key,
\* else null; a delete event with documentKey._id = X and no fullDocument
\* gives document = {_id: X} and operation_type = "delete", and
\* _sdc_deleted_at, set exactly when add_record_metadata is on, is the
\* event's cluster time; no record of another operation type, and no dummy
\* record, has _sdc_deleted_at.
C10_DocumentAndDeletedAt ==
  /\ Len(RealRecords) = Len(AllowlistedEvents)
  /\ \A i \in 1..Len(RealRecords) :
       LET r == RealRecords[i]
           e == AllowlistedEvents[i]
       IN /\ r.document =
               IF "fullDocument" \in DOMAIN e THEN e.fullDocument
               ELSE IF "documentKey" \in DOMAIN e THEN {e.documentKey}
               ELSE {}
          /\ (e.operationType = "delete" /\ "fullDocument" \notin DOMAIN e
                /\ "documentKey" \in DOMAIN e)
             => /\ r.document = {[_id |-> e.documentKey._id]}
                /\ r.operation_type = {"delete"}
                /\ ("_sdc_deleted_at" \in DOMAIN r) = config.add_record_metadata
                /\ config.add_record_metadata
                   => r._sdc_deleted_at = [utc_seconds |-> e.clusterTime.time]
          /\ e.operationType # "delete" => "_sdc_deleted_at" \notin DOMAIN r
  /\ \A i \in 1..Len(yielded) :
       IsDummy(yielded[i]) => "_sdc_deleted_at" \notin DOMAIN yielded[i]

\* with metadata on: an update whose fullDocument is null, then a delete
C10_Witness ==
  /\ config.add_record_metadata
  /\ Len(yielded) = 2
  /\ delivered[1].operationType = "update"
  /\ yielded[1].document = None
  /\ "_sdc_deleted_at" \notin DOMAIN yielded[1]
  /\ delivered[2].operationType = "delete"
  /\ yielded[2].document = {[_id |-> [oid |-> "614a80b81ad8c60001b7d5f3"]]}
  /\ "_sdc_deleted_at" \in DOMAIN yielded[2]

(* ----------------------- incremental reader properties ------------------ *)
\* the _id of the document a yielded record was made from
IdOfRecord(r) == The(r.document)._id
\* the string the lower bound of this run comes from
LowerBoundString ==
  IF bookmark # None /\ bookmark # Some(<<>>) THEN The(bookmark)
  ELSE IF "start_date" \in DOMAIN config THEN config.start_date
  ELSE DefaultStartDate
\* the lower bound of this run: the _id in a bookmark that is a record's key,
\* else the time of the bare date or datetime followed by zeros
LowerBound ==
  IF \E d \in Documents : LowerBoundString = KeyOf(d)
  THEN (CHOOSE d \in Documents : LowerBoundString = KeyOf(d))._id
  ELSE [timestamp |-> IF LowerBoundString = DefaultStartDate THEN 0
                      ELSE IF Len(LowerBoundString) = 10 THEN 1632268800
                      ELSE IF LowerBoundString[19] = "8" THEN 1632272568
                      ELSE 1632272569,
        tail |-> [i \in 1..16 |-> "0"]]
AboveLowerBound == {d \in collection : ObjectIdLess(LowerBound, d._id)}

\* C11: the records of an incremental run go up strictly, by _id and by
\* replication_key as a string, and a run that has ended has yielded, once
\* each, exactly the documents whose _id is greater than the lower bound that
\* comes from the bookmark, or from start_date when there is no bookmark.
C11_AscendingAndComplete ==
  /\ \A i, j \in 1..Len(yielded) :
       i < j => /\ ObjectIdLess(IdOfRecord(yielded[i]), IdOfRecord(yielded[j]))
                /\ StrLess(yielded[i].replication_key, yielded[j].replication_key)
  /\ \A i \in 1..Len(yielded) : IdOfRecord(yielded[i]) \in {d._id : d \in AboveLowerBound}
  /\ pc = "done" => /\ {IdOfRecord(yielded[i]) : i \in 1..Len(yielded)}
                         = {d._id : d \in AboveLowerBound}
                    /\ Len(yielded) = Cardinality(AboveLowerBound)

\* a first run from the key of a document that is in the collection: the
\* document after it is yielded, the document itself and the one before it are not
C11_Witness ==
  /\ pc = "done"
  /\ previous_run = None
  /\ \E d \in collection : bookmark = Some(KeyOf(d))
  /\ Cardinality(collection) = 3
  /\ Len(yielded) = 1
  /\ \E d \in collection : ObjectIdLess(d._id, LowerBound)

\* C12: on an unchanged collection, a run started from the bookmark the state
\* entry held after record i of an uninterrupted run yields the records after
\* record i of that run, all of them, in the same order, and no other.
C12_RestartYieldsTheRest ==
  (previous_run # None /\ pc = "done") =>
    LET uninterrupted == The(previous_run).yielded
        i == The(previous_run).after
    IN /\ bookmark = Some(uninterrupted[i].replication_key)
       /\ yielded = SubSeq(uninterrupted, i + 1, Len(uninterrupted))

\* a restart after the first of three records, the second one of the same second
C12_Witness ==
  /\ previous_run # None
  /\ pc = "done"
  /\ Len(The(previous_run).yielded) = 3
  /\ The(previous_run).after = 1
  /\ Len(yielded) = 2
  /\ IdOfRecord(yielded[1]).timestamp = IdOfRecord(The(previous_run).yielded[1]).timestamp

\* the token a collection.watch call asks the engine to resume from; with
\* neither option the stream starts at the time it is opened
ResumedFrom(options) ==
  IF "resume_after" \in DOMAIN options THEN Some(options.resume_after._data)
  ELSE IF "start_after" \in DOMAIN options THEN Some(options.start_after._data)
  ELSE None

C14_BookmarkFollowsRecords ==
  /\ Len(state_history) = IF pc = "advance" THEN Len(yielded) - 1 ELSE Len(yielded)
  /\ \A i \in 1..Len(state_history) : state_history[i] = Some(yielded[i].replication_key)
  /\ \A i \in 1..Len(state_history) - 1 :
       StrLess(The(state_history[i]), The(state_history[i + 1]))
  /\ state_history # <<>>
       => /\ stream_state.replication_key_value = state_history[Len(state_history)]
          /\ bookmark # None => StrLess(The(bookmark), The(state_history[1]))
  /\ raised # None => (pc = "fatal" /\ yielded = <<>> /\ start_date = None)

\* three records have been passed to the state advancement
C14_Witness ==
  /\ Len(state_history) = 3
  /\ pc = "iterate"
  /\ stream_state.replication_key_value = Some(yielded[3].replication_key)

\* the lower bound of this run comes from a string without an id half
BareLowerBound ==
  /\ replication_method = REPLICATION_INCREMENTAL
  /\ PATTERN(LowerBoundString) # None
  /\ The(PATTERN(LowerBoundString)).oid = None
  /\ pc # "get_records"
\* the documents the engine can hold that were made at or after the time of the bound
AtOrAfter(bound, documents) == {d \in documents : d._id.timestamp >= bound.timestamp}
YieldedIds == {IdOfRecord(yielded[i]) : i \in 1..Len(yielded)}

\* C27 as stated: the lower bound made from a bare date or datetime has the
\* time of the string as its timestamp and zeros after it, is less than or
\* equal to every ObjectId made at or after that time, and a run that has
\* ended has skipped no document made at or after that time.
C27_NoDocumentSkipped ==
  BareLowerBound =>
    /\ start_date = Some(LowerBound)
    /\ \A d \in AtOrAfter(LowerBound, Documents) : ~ObjectIdLess(d._id, LowerBound)
    /\ pc = "done" => \A d \in AtOrAfter(LowerBound, collection) : d._id \in YieldedIds

\* C27, amended: the lower bound made from a bare date or datetime has the UTC
\* time of the string as its timestamp and zeros after it ("1970-01-01"
\* gives 000000000000000000000000, "2021-09-22" gives
\* 614a72000000000000000000), is less than or equal to every ObjectId made at
\* or after that time, and a run that has ended has yielded every document
\* made at or after that time except the one whose _id is the bound itself.
C27_LowerBoundOfBareDate ==
  BareLowerBound =>
    /\ start_date = Some(LowerBound)
    /\ LowerBoundString = DefaultStartDate
       => ObjectId_str(The(start_date)) = [i \in 1..24 |-> "0"]
    /\ LowerBoundString = <<"2", "0", "2", "1", "-", "0", "9", "-", "2", "2">>
       => ObjectId_str(The(start_date)) = <<"6", "1", "4", "a", "7", "2", "0", "0">> \o [i \in 1..16 |-> "0"]
    /\ \A d \in AtOrAfter(LowerBound, Documents) : ~ObjectIdLess(d._id, LowerBound)
    /\ pc = "done"
       => /\ \A d \in AtOrAfter(LowerBound, collection) :
               d._id # LowerBound => d._id \in YieldedIds
          /\ LowerBound \notin YieldedIds

\* a run from start_date 2021-09-22 with no bookmark over three documents, one
\* of them of the year 2000: the two of 2021 are yielded
C27_Witness ==
  /\ BareLowerBound
  /\ pc = "done"
  /\ bookmark = None
  /\ "start_date" \in DOMAIN config
  /\ Cardinality(collection) = 3
  /\ Cardinality(AtOrAfter(LowerBound, collection)) = 2
  /\ Len(yielded) = 2

\* config.get("start_date", DEFAULT_START_DATE)
ConfiguredStartDate ==
  IF "start_date" \in DOMAIN config THEN config.start_date ELSE DefaultStartDate

\* C22: an incremental run whose persisted bookmark is not an IncrementalId
\* string (the resume token of an earlier log-based run) does not fail: its
\* lower bound is the one of the configured start_date, and it yields the
\* documents above that bound.
C22_InvalidBookmarkFallsBack ==
  (/\ replication_method = REPLICATION_INCREMENTAL
   /\ bookmark # None
   /\ The(bookmark) # <<>>
   /\ PATTERN(The(bookmark)) = None
   /\ pc # "get_records")
  => /\ raised = None
     /\ start_date = Some(to_object_id(ConfiguredStartDate).value)
     /\ pc = "done"
        => Len(yielded) = Cardinality({d \in collection : ObjectIdLess(The(start_date), d._id)})

\* C23: every record of an incremental run is made from a document of the
\* collection: its object_id is the 24 hex characters of the document's _id,
\* its replication_key parses as an IncrementalId whose object_id is that
\* _id, its namespace is the database and collection read, and its
\* operation_type, cluster_time, update_description and to are null.
C23_IncrementalRecordShape ==
  replication_method = REPLICATION_INCREMENTAL =>
    \A i \in 1..Len(yielded) :
      LET r == yielded[i] IN
      \E d \in collection :
        /\ The(r.document)._id = d._id
        /\ r.object_id # None
        /\ Len(The(r.object_id)) = 24
        /\ ObjectId(The(r.object_id)) = d._id
        /\ from_string(r.replication_key).type = "IncrementalId"
        /\ IncrementalId_object_id(from_string(r.replication_key).value) = d._id
        /\ r.namespace = Some([database |-> DatabaseName, collection |-> CollectionName])
        /\ r.operation_type = None
        /\ r.cluster_time = None
        /\ r.update_description = None
        /\ r.to = None

\* a collection of one document, _id 614a80b81ad8c60001b7d5f3, read from the
\* default start date with no bookmark: one record
C23_Witness ==
  /\ pc = "done"
  /\ bookmark = None
  /\ "start_date" \notin DOMAIN config
  /\ Cardinality(collection) = 1
  /\ Len(yielded) = 1
  /\ yielded[1].object_id = Some(<<"6", "1", "4", "a", "8", "0", "b", "8", "1", "a", "d", "8", "c", "6", "0", "0", "0", "1", "b", "7", "d", "5", "f", "3">>)
  /\ yielded[1].replication_key = <<"2", "0", "2", "1", "-", "0", "9", "-", "2", "2", "T", "0", "1", ":", "0", "2", ":", "4", "8", "+", "0", "0", ":", "0", "0", "|", "6", "1", "4", "a", "8", "0", "b", "8", "1", "a", "d", "8", "c", "6", "0", "0", "0", "1", "b", "7", "d", "5", "f", "3">>

\* a value is an ObjectId, not the string made of it
IsObjectIdValue(x) == DOMAIN x = {"timestamp", "tail"}

\* C34: the document of every record the incremental reader yields holds no
\* ObjectId: its _id is the 24-character hex string of the document's
\* ObjectId.
C34_IncrementalDocumentSanitized ==
  replication_method = REPLICATION_INCREMENTAL
  => \A i \in 1..Len(yielded) :
       LET document == The(yielded[i].document) IN
       /\ ~IsObjectIdValue(document._id)
       /\ Some(document._id) = yielded[i].object_id

(* ------------------------ state advancement properties ------------------ *)
\* the bookmark the state entry held before the last record was passed
BookmarkBefore ==
  LET successes == IF pc = "fatal" THEN Len(state_history) ELSE Len(state_history) - 1
  IN IF successes = 0 THEN bookmark ELSE state_history[successes]
LastPassed == yielded[Len(yielded)]
OutOfOrder == Some(Exception("InvalidStreamSortException"))

\* C15: on a sorted stream (INCREMENTAL) a record whose replication_key is
\* less than the bookmark makes the state advancement fail with the
\* out-of-order error and the bookmark stays where it was, so that it never
\* moves backwards; on a LOG_BASED stream no record, whatever its
\* replication_key, raises the out-of-order error.
C15_OutOfOrderOnlyWhenSorted ==
  /\ (replication_method = REPLICATION_INCREMENTAL /\ yielded # <<>>)
       => /\ (BookmarkBefore # None
                /\ StrLess(LastPassed.replication_key, The(BookmarkBefore)))
             => /\ pc = "fatal"
                /\ raised = OutOfOrder
                /\ stream_state.replication_key_value = BookmarkBefore
          /\ \A i \in 1..Len(state_history) :
               LET before == IF i = 1 THEN bookmark ELSE state_history[i - 1] IN
               before # None => ~StrLess(The(state_history[i]), The(before))
  /\ replication_method = REPLICATION_LOG_BASED
       => /\ raised = None
          /\ Len(state_history) = Len(yielded)

\* a sorted stream has taken one record and has failed on a second one that
\* is less than the first
C15_Witness ==
  /\ replication_method = REPLICATION_INCREMENTAL
  /\ Len(state_history) = 1
  /\ Len(yielded) = 2
  /\ StrLess(yielded[2].replication_key, yielded[1].replication_key)
  /\ pc = "fatal"
  /\ raised = OutOfOrder

\* C31: a stream with custom state partitioning keys is advanced as an
\* unsorted one whatever its replication method: no record passed to the
\* state advancement raises the out-of-order error, and the bookmark follows
\* every record passed.
C31_PartitionedStreamIsUnsorted ==
  (state_partitioning_keys # None
     /\ replication_method \in {REPLICATION_INCREMENTAL, REPLICATION_LOG_BASED})
  => /\ raised # OutOfOrder
     /\ Len(state_history) = Len(yielded)
     /\ yielded # <<>> => stream_state.replication_key_value = Some(LastPassed.replication_key)

(* --------------------- resume-strategy selector properties ------------- *)
ValidPreference ==
  config.change_stream_resume_strategy \in {"resume_after", "start_after", "start_at_operation_time"}
\* the server version is at least major.minor
ServerAtLeast(major, minor) ==
  mongo_version[1] > major \/ (mongo_version[1] = major /\ mongo_version[2] >= minor)

\* C16: for every server version from 3.6 on and every valid preference the
\* strategy the reader gets is START_AFTER exactly for start_after on 4.2 or
\* later, START_AT_OPERATION_TIME exactly for start_at_operation_time on 4.0
\* or later, and RESUME_AFTER in every other case.
C16_DecisionTable ==
  (pc # "start" /\ ValidPreference /\ ServerAtLeast(3, 6)) =>
    LET preference == config.change_stream_resume_strategy IN
    /\ pc = "watch"
    /\ raised = None
    /\ resume_strategy \in {START_AFTER, START_AT_OPERATION_TIME, RESUME_AFTER}
    /\ resume_strategy = START_AFTER
         <=> (preference = "start_after" /\ ServerAtLeast(4, 2))
    /\ resume_strategy = START_AT_OPERATION_TIME
         <=> (preference = "start_at_operation_time" /\ ServerAtLeast(4, 0))
    /\ resume_strategy = RESUME_AFTER
         <=> \/ preference = "resume_after"
             \/ (preference = "start_after" /\ ~ServerAtLeast(4, 2))
             \/ (preference = "start_at_operation_time" /\ ~ServerAtLeast(4, 0))

\* start_at_operation_time on 4.0, where start_after is not yet to be had
C16_Witness ==
  /\ pc = "watch"
  /\ mongo_version = <<4, 0>>
  /\ config.change_stream_resume_strategy = "start_at_operation_time"
  /\ resume_strategy = START_AT_OPERATION_TIME

\* C17: the selector fails in exactly two cases: an invalid-configuration
\* error for a preference outside the three names, on every server version,
\* and an unsupported-engine error for a valid preference on a server older
\* than 3.6; in every other case it returns a strategy.
C17_SelectorErrors ==
  pc # "start" =>
    /\ ~ValidPreference
         => /\ pc = "fatal"
            /\ raised = Some([kind |-> "InvalidConfig", code |-> 0, modifyMsg |-> FALSE])
    /\ (ValidPreference /\ ~ServerAtLeast(3, 6))
         => /\ pc = "fatal"
            /\ raised = Some([kind |-> "UnsupportedEngine", code |-> 0, modifyMsg |-> FALSE])
    /\ (ValidPreference /\ ServerAtLeast(3, 6))
         => /\ raised = None
            /\ IsStrategy(resume_strategy)

\* a valid preference on 3.5
C17_Witness ==
  /\ pc = "fatal"
  /\ mongo_version = <<3, 5>>
  /\ config.change_stream_resume_strategy = "start_after"
  /\ raised # None
  /\ The(raised).kind = "UnsupportedEngine"

(* ------------------------ IncrementalId properties --------------------- *)
\* the string or ObjectId the codec was first called with
Argument == The(call)

\* C18: for every string s the pattern accepts (date only, datetime with
\* +00:00, either one followed by | and 24 hex characters), the string form
\* of IncrementalId.from_string(s) is s again.  Stated for the strings
\* from_string returns an IncrementalId for.
C18_StringRoundTrip ==
  (/\ Argument.type = "str"
   /\ PATTERN(Argument.value) # None
   /\ Len(returned) >= 2
   /\ returned[1].type = "IncrementalId"
   /\ returned[2].type = "str")
  => returned[2].value = Argument.value

\* C19: for every ObjectId o, from_object_id(o) is an IncrementalId whose
\* object_id is o, its string form parses, and the object_id of the parsed
\* IncrementalId is o as well.
C19_ObjectIdRoundTrip ==
  Argument.type = "ObjectId" =>
    /\ Len(returned) >= 1 => returned[1].type = "IncrementalId"
    /\ (Len(returned) >= 2 /\ returned[2].type = "ObjectId")
       => returned[2].value = Argument.value
    /\ (Len(returned) >= 3 /\ returned[2].type = "str")
       => returned[3].type = "IncrementalId"
    /\ (Len(returned) >= 4 /\ returned[2].type = "str" /\ returned[4].type = "ObjectId")
       => returned[4].value = Argument.value

\* an ObjectId with bytes after its timestamp has gone through from_object_id,
\* str, from_string and object_id
C19_Witness ==
  /\ Argument.type = "ObjectId"
  /\ Argument.value.tail # [i \in 1..16 |-> "0"]
  /\ Len(returned) = 4
  /\ returned[2].type = "str"
  /\ returned[4].type = "ObjectId"
  /\ returned[4].value = Argument.value

\* C20: the string form of from_object_id(a) is less than the string form of
\* from_object_id(b), as strings, whenever a < b as ObjectIds (by generation
\* time, then by the bytes that follow).
C20_KeysSortAsObjectIds ==
  (Argument.type = "ObjectId" /\ Len(returned) >= 2 /\ returned[2].type = "str")
  => \A b \in ObjectIds :
       LET key_b == IncrementalId_str(from_object_id(Some(b)).value) IN
       /\ ObjectIdLess(Argument.value, b) => StrLess(returned[2].value, key_b)
       /\ ObjectIdLess(b, Argument.value) => StrLess(key_b, returned[2].value)

\* the key of an ObjectId that has both a later one in its own second and an
\* earlier one in another second
C20_Witness ==
  /\ Argument.type = "ObjectId"
  /\ Len(returned) >= 2
  /\ returned[2].type = "str"
  /\ \E b \in ObjectIds : /\ b.timestamp = Argument.value.timestamp
                          /\ ObjectIdLess(Argument.value, b)
  /\ \E b \in ObjectIds : b.timestamp < Argument.value.timestamp

(* -------------------------- sanitizer properties ----------------------- *)
\* the values of a tree that are neither a dict nor a list
RECURSIVE Leaves(_)
Leaves(x) ==
  IF x.type = "dict" THEN UNION {Leaves(x.value[key]) : key \in DOMAIN x.value}
  ELSE IF x.type = "list" THEN UNION {Leaves(x.value[i]) : i \in 1..Len(x.value)}
  ELSE {x}

IsNonFinite(x) == x.type = "float" /\ x.value \in {"inf", "-inf", "nan"}
IsBsonOnly(x) == x.type \in {"ObjectId", "UUID", "datetime", "Binary", "bytes"}

\* C21: what sanitize_doc returns for a tree of dicts, lists and scalars holds
\* no ObjectId, UUID, datetime, Binary or bytes value and no float that is
\* +inf, -inf or NaN, at any depth.
C21_TypeClosure ==
  (pc = "sanitize" /\ returned # <<>>)
  => \A leaf \in Leaves(returned[1]) : ~IsBsonOnly(leaf) /\ ~IsNonFinite(leaf)

Asked(preference) ==
  IF preference = "start_after" THEN START_AFTER
  ELSE IF preference = "start_at_operation_time" THEN START_AT_OPERATION_TIME
  ELSE RESUME_AFTER
SupportedVersions == {v \in ServerVersions : VersionAtLeast(v, <<3, 6>>)}

\* C37: for a valid preference, the strategy every supported version at least
\* as new as the reader's server gets is the strategy the reader got or the
\* one the preference asks for, and when the reader got START_AFTER or
\* START_AT_OPERATION_TIME every newer version gets it too.
C37_UpgradeKeepsStrategy ==
  (pc # "start" /\ ValidPreference /\ mongo_version \in SupportedVersions) =>
    LET preference == config.change_stream_resume_strategy IN
    /\ IsStrategy(resume_strategy)
    /\ \A newer \in SupportedVersions :
         VersionAtLeast(newer, mongo_version)
         => LET upgraded == get_resume_strategy(newer, preference) IN
            /\ upgraded \in {resume_strategy, Asked(preference)}
            /\ resume_strategy # RESUME_AFTER => upgraded = resume_strategy

\* start_after on 4.1: RESUME_AFTER there, START_AFTER from 4.2 on
C37_Witness ==
  /\ pc = "watch"
  /\ mongo_version = <<4, 1>>
  /\ config.change_stream_resume_strategy = "start_after"
  /\ resume_strategy = RESUME_AFTER
  /\ get_resume_strategy(<<4, 2>>, "start_after") = START_AFTER
  /\ get_resume_strategy(<<5, 0>>, "start_after") = START_AFTER

(* ------------------------- record emitter properties ------------------- *)
\* the metadata keys the readers set
SdcFields == {"_sdc_extracted_at", "_sdc_batched_at", "_sdc_deleted_at"}

\* C24: with add_record_metadata on, the payload of every record message
\* (of a change event or of the dummy record) has the keys _sdc_extracted_at
\* and _sdc_batched_at; with it off, no payload has an _sdc key.
C24_MetadataFields ==
  \A i \in 1..Len(emitted) :
    LET payload == emitted[i].record IN
    IF config.add_record_metadata
    THEN {"_sdc_extracted_at", "_sdc_batched_at"} \subseteq DOMAIN payload
    ELSE DOMAIN payload \cap SdcFields = {}

\* C25: the record message of every record made from a change event has, as
\* its time_extracted, the cluster time of that event, whether
\* add_record_metadata is on or off.
C25_TimeExtractedIsClusterTime ==
  /\ Len(emitted) = Len(yielded)
  /\ \A i \in 1..Len(yielded) :
       ~IsDummy(yielded[i])
       => emitted[i].time_extracted = as_datetime(AllowlistedEvents[i].clusterTime)

(* ------------------------- log-based open properties ------------------- *)
\* C26: a log-based run that starts with no persisted resume token opens its
\* change stream with neither resume_after nor start_after, whatever
\* start_date is configured: no collection.watch call carries a resume option.
C26_StartDateNeverSentAsToken ==
  (replication_method = REPLICATION_LOG_BASED /\ stream_state.replication_key_value = None)
  => \A i \in 1..Len(watch_calls) : ~HasResumeOption(watch_calls[i].options)

\* a try_next that fails with code 286
TryNextFails286 ==
  \E failure \in LaterFailures : TryNextFails(failure) /\ IsCode(failure, 286)
\* the collection.watch of line 303 has returned a stream
ReopenedInPoll == pc = "reopen_in_poll" /\ pc' = "poll"

\* C28 as stated: a try_next that fails with code 286 removes both resume
\* options and reopens the stream, and once the stream is reopened the loop
\* goes on: the reader polls the new stream, whether or not real records had
\* been yielded.
C28_ReopenThenPollsOn ==
  [][/\ TryNextFails286
        => (pc' = "reopen_in_poll" /\ raised' = None /\ ~HasResumeOption(change_stream_options'))
     /\ ReopenedInPoll
        => (The(change_stream').alive /\ keep_open')
    ]_vars

\* C28, amended: a try_next that fails with code 286 removes both resume
\* options and reopens the stream, and the tick is then handled as one
\* without an event. The reader polls the new stream only if no real record
\* has been seen and the new stream has no resume token; if real records had
\* been yielded the loop ends with nothing more yielded, and if none had been
\* and the new stream has a resume token a dummy record is yielded and the
\* loop ends. Once the loop has ended no event is read.
C28_ReopenIsAnEmptyTick ==
  [][/\ TryNextFails286
        => /\ pc' = "reopen_in_poll" /\ raised' = None
           /\ ~HasResumeOption(change_stream_options')
           /\ yielded' = yielded /\ keep_open' = keep_open
     /\ ReopenedInPoll
        => LET new == The(change_stream') IN
           /\ new.id = Len(watch_calls') /\ new.id # The(change_stream).id
           /\ The(change_stream).id \in released_streams'
           /\ ~HasResumeOption(watch_calls'[Len(watch_calls')].options)
           /\ has_seen_a_real_record
              => (yielded' = yielded /\ ~keep_open')
           /\ (~has_seen_a_real_record /\ new.resume_token # None)
              => /\ Len(yielded') = Len(yielded) + 1
                 /\ IsDummy(yielded'[Len(yielded')])
                 /\ yielded'[Len(yielded')].replication_key = The(new.resume_token)._data
                 /\ ~keep_open'
           /\ (~has_seen_a_real_record /\ new.resume_token = None)
              => (yielded' = yielded /\ keep_open')
     /\ (pc = "poll" /\ ~keep_open)
        => (pc' = "done" /\ delivered' = delivered /\ yielded' = yielded)
    ]_vars

\* a MongoDB run that yielded real records, met code 286 in try_next, reopened
\* the stream and ended without reading from it: the second stream still has
\* the token it was opened with
C28_Witness ==
  /\ engine = "mongodb"
  /\ pc = "done"
  /\ reopens = 1
  /\ yielded # <<>> /\ RealRecords = yielded
  /\ Len(watch_calls) = 2 /\ watch_calls[2].raised = None
  /\ The(change_stream).id = 2
  /\ The(change_stream).resume_token = ResumeTokenOnOpen(engine, oplog)
  /\ released_streams = {1, 2}

\* C29: the first collection.watch of a log-based run whose bookmark is
\* present and is not the default start date carries exactly one resume option,
\* with the bookmark as its _data: start_after when the strategy selected is
\* START_AFTER, resume_after for every other strategy; without a bookmark, or
\* with the default start date as bookmark, it carries neither.
C29_FirstOpenCarriesBookmark ==
  (replication_method = REPLICATION_LOG_BASED /\ watch_calls # <<>>)
  => LET options == watch_calls[1].options IN
     IF bookmark # None /\ bookmark # Some(DEFAULT_START_DATE)
     THEN IF resume_strategy = START_AFTER
          THEN /\ "start_after" \in DOMAIN options
               /\ options.start_after = [_data |-> The(bookmark)]
               /\ "resume_after" \notin DOMAIN options
          ELSE /\ "resume_after" \in DOMAIN options
               /\ options.resume_after = [_data |-> The(bookmark)]
               /\ "start_after" \notin DOMAIN options
     ELSE ~HasResumeOption(options)

\* C30: while the open stream has no resume token and no real record has
\* been seen, a tick on which try_next returns no event yields nothing (no
\* dummy record), raises nothing and leaves the reader polling with the loop
\* still running; nothing has been yielded up to then, and the first event of
\* an allowlisted type that try_next returns is yielded as the first record.
C30_IdleWithoutToken ==
  [][/\ (NoEventTick /\ ~has_seen_a_real_record /\ The(change_stream).resume_token = None)
        => /\ yielded = <<>> /\ yielded' = yielded
           /\ pc' = "poll" /\ raised' = None
           /\ keep_open' /\ The(change_stream').alive
     /\ \A shape \in EventShapes :
          (TryNextEvent(shape) /\ ~has_seen_a_real_record
             /\ InAllowlist(shape.operationType, config.operation_types))
          => /\ yielded = <<>> /\ Len(yielded') = 1
             /\ yielded'[1].replication_key = delivered'[Len(delivered')]._id._data
             /\ yielded'[1].operation_type = Some(shape.operationType)
    ]_vars

\* a DocumentDB stream that has been polled an odd number of times without an
\* event: nothing yielded, the loop still running
C30_Witness ==
  /\ engine = "documentdb"
  /\ pc = "poll"
  /\ idle_polls_odd
  /\ delivered = <<>>
  /\ yielded = <<>>
  /\ The(change_stream).resume_token = None
  /\ keep_open

\* the streams collection.watch has returned, by id
OpenedStreams == {i \in 1..Len(watch_calls) : watch_calls[i].raised = None}

\* C32: a log-based run never holds more than one open change stream, the
\* stream replaced after code 286 in try_next is let go of, and when the
\* reader has finished, after the caught-up exit, after the dummy record or
\* with a fatal error, no stream it opened is still held.
C32_EveryStreamClosed ==
  replication_method = REPLICATION_LOG_BASED
  => /\ Cardinality(OpenedStreams \ released_streams) <= 1
     /\ released_streams \subseteq OpenedStreams
     /\ Finished => OpenedStreams \subseteq released_streams

\* C33: when the collection.watch retried after a successful
\* modifyChangeStreams command, with a bookmark sent, fails with code 286,
\* the run does not fail: the resume options are removed for a further
\* collection.watch.
C33_RetryRecoversFrom286 ==
  (/\ replication_method = REPLICATION_LOG_BASED
   /\ stream_state.replication_key_value # None
   /\ Len(admin_commands) = 1
   /\ Len(watch_calls) >= 2
   /\ HasResumeOption(watch_calls[1].options)
   /\ watch_calls[2].raised # None
   /\ IsCode(The(watch_calls[2].raised), 286))
  => /\ pc # "fatal"
     /\ raised = None
     /\ ~HasResumeOption(change_stream_options)

(* --------------------- replacement of empty values, properties ---------- *)
IsInfOrNaN(x) == x.type = "float" /\ x.value \in {"inf", "-inf", "nan", "math.nan"}

\* a tree with every +inf, -inf and NaN replaced by None, whatever its depth
RECURSIVE WithoutInfOrNaN(_)
WithoutInfOrNaN(x) ==
  IF x.type = "dict" THEN Value("dict", [key \in DOMAIN x.value |-> WithoutInfOrNaN(x.value[key])])
  ELSE IF x.type = "list" THEN Value("list", [i \in 1..Len(x.value) |-> WithoutInfOrNaN(x.value[i])])
  ELSE IF IsInfOrNaN(x) THEN Value("NoneType", <<>>)
  ELSE x

\* C35: the dict recursive_replace_empty_in_dict returns holds no +inf, -inf
\* or NaN at any depth of dicts and lists, lists inside lists included: it
\* is the argument with every such float replaced by None and every other
\* value as it was.
C35_NoInfOrNaNRemains ==
  (pc = "replace_empty" /\ returned # <<>>)
  => /\ \A leaf \in Leaves(returned[1]) : ~IsInfOrNaN(leaf)
     /\ returned[1] = WithoutInfOrNaN(The(call))

\* the places of the dummy records among the records yielded
Dummies == {i \in 1..Len(yielded) : IsDummy(yielded[i])}

\* C38: a log-based run yields at most one dummy record, after which it
\* yields nothing, and none once it has yielded a real record; the dummy
\* record carries the resume token the stream has then. An event the
\* allowlist skips is not a real record: a run that has ended without a real
\* record and with its stream alive has yielded the dummy record, also when
\* events were read and skipped.
C38_OneDummyAtTheEnd ==
  replication_method = REPLICATION_LOG_BASED
  => /\ Cardinality(Dummies) <= 1
     /\ \A i \in Dummies :
          /\ i = Len(yielded)
          /\ yielded[i].replication_key = The(The(change_stream).resume_token)._data
     /\ Dummies # {} => RealRecords = <<>>
     /\ (pc = "done" /\ RealRecords = <<>> /\ The(change_stream).alive)
        => Dummies = {1}

\* every event the run read was skipped by the allowlist, and the run ended
\* with the dummy record that carries the token of the last of them
C38_Witness ==
  /\ pc = "done"
  /\ reopens = 0
  /\ Len(delivered) = MaxEvents
  /\ \A i \in 1..Len(delivered) : ~InAllowlist(delivered[i].operationType, config.operation_types)
  /\ Len(yielded) = 1
  /\ IsDummy(yielded[1])
  /\ yielded[1].replication_key = delivered[Len(delivered)]._id._data

(* --------------------------- connector properties ----------------------- *)
\* the places of the server_info calls that returned
Probed == {i \in 1..Len(server_info_calls) : server_info_calls[i] = "ok"}

\* C39: nothing asks the server for its version before the client is first
\* used; when the log-based reader reads connector.version, whatever led
\* get_records there, a server_info call has returned and the version it told
\* is the one the reader reads and hands to get_resume_strategy, never an
\* unset one; and once a server_info call has returned the connector makes no
\* further one.
C39_VersionProbedOnceBeforeRead ==
  /\ pc \in {"read_version", "start", "watch"}
       => (connector_version # None /\ mongo_client # None /\ Probed # {})
  /\ pc # "unset_version"
  /\ pc \in {"start", "watch"}
       => (mongo_version = The(connector_version) /\ mongo_version \in ServerVersions)
  /\ (pc = "watch" \/ (pc = "fatal" /\ resume_strategy # "unset"))
       => resume_strategy = get_resume_strategy(The(connector_version),
                                                config.change_stream_resume_strategy)
  /\ Cardinality(Probed) <= 1
  /\ Probed \subseteq {Len(server_info_calls)}
  /\ connector_version # None <=> Probed # {}
  /\ mongo_client # None <=> Probed # {}

\* the first server_info call raised, the second told 4.2, and the log-based
\* reader has chosen its strategy from that version
C39_Witness ==
  /\ pc = "watch"
  /\ server_info_calls = <<"raised", "ok">>
  /\ connector_version = Some(<<4, 2>>)
  /\ mongo_version = <<4, 2>>
  /\ config.change_stream_resume_strategy = "start_after"
  /\ resume_strategy = START_AFTER

====
